---- MODULE Spec2Model ----
(***************************************************************************)
(* Model of the text-to-document exporters of the UDL Differentiation      *)
(* Wizard (src/export_service.py): the section splitter parse_sections,    *)
(* the checkbox substitution convert_checkboxes, the inline markup parser  *)
(* parse_formatted_text, and the four exporters export_to_docx,            *)
(* export_to_pdf, export_to_pptx and export_all_to_xlsx with the file      *)
(* names they save to.                                                     *)
(*                                                                         *)
(* A Python str is modelled as a sequence of one-character strings.  The   *)
(* two checkbox glyphs are single characters, written "U+2610"/"U+2611".   *)
(***************************************************************************)
EXTENDS Integers, Sequences, FiniteSets, TLC

VARIABLES
    content,          \* parse_sections: the argument
    ps_pc,            \* parse_sections: "idle" | "loop" | "done"
    ps_i,             \* parse_sections: number of lines the for loop has consumed
    sections,         \* parse_sections: local list `sections`
    current_title,    \* parse_sections: local `current_title`
    current_content,  \* parse_sections: local list `current_content`
    ps_result,        \* parse_sections: the returned list
    cb_text,          \* convert_checkboxes: the argument
    cb_pc,            \* convert_checkboxes: "idle" | "checked" | "done"
    cb_out,           \* convert_checkboxes: local `text` after each re.sub
    pf_text,          \* parse_formatted_text: the argument
    pf_pc,            \* parse_formatted_text: "idle" | "scan" | "done"
    pf_conv,          \* parse_formatted_text: local `text` after convert_checkboxes
    segments,         \* parse_formatted_text: local list `segments`
    last_end,         \* parse_formatted_text: local `last_end` (0-based offset)
    matches,          \* parse_formatted_text: the match objects re.finditer has yielded
    pf_result,        \* parse_formatted_text: the returned list
    materials,        \* exporters: the argument `materials`
    form_data,        \* exporters: the argument `form_data`
    version_key,      \* exporters: the argument `version_key` (none for xlsx)
    save_path,        \* exporters: the argument `save_path`
    ex_fmt,           \* exporters: which one is called: "docx" | "pdf" | "pptx" | "xlsx"
    ex_pc,            \* exporters: "idle" | "loop" | "done"
    ex_sections,      \* exporters: local list `sections`
    ex_s,             \* exporters: number of sections the section loop has entered
    ex_lines,         \* exporters: `section_content.split('\n')` of the current section
    ex_l,             \* exporters: number of lines the line loop has consumed
    ex_v,             \* export_all_to_xlsx: number of VERSION_NAMES items consumed
    first_line,       \* export_to_pptx: local `first_line`
    doc,              \* export_to_docx: the paragraphs of `doc`
    story,            \* export_to_pdf: local list `story`
    slides,           \* export_to_pptx: `prs.slides`
    wb,               \* export_all_to_xlsx: the sheets of `wb`
    filepath,         \* exporters: local `filepath`, the value returned
    jobs,             \* concurrent export calls: per call its exporter, version_key, position and `filepath`
    written,          \* the files on disk: which call saved which path
    generate_btn,     \* StepGenerate: generate_btn.isEnabled()
    gw_pc,            \* GenerationWorker.run: "none" | "loop" | "generating" | "done"
    gw_i,             \* GenerationWorker.run: number of versions the for loop has finished
    results,          \* GenerationWorker.run: local dict `results`
    gw_prompts,       \* the (user_prompt, system_prompt) pairs passed to ollama.generate so far
    emitted,          \* the signals the worker has emitted, in order
    handled,          \* number of emitted signals whose slot has run in the GUI thread
    form_at_start,    \* the values form_data held when start_generation was called
    edits,            \* number of changes made to form_data by the GUI
    replies,          \* what ollama.generate will do for each version: return a text or raise
    start_btn,        \* StepConversation: start_btn.isEnabled()
    send_btn,         \* StepConversation: send_btn.isEnabled()
    message_input,    \* StepConversation: message_input.text()
    messages,         \* StepConversation: the roles of self.messages
    chat_workers,     \* the ChatWorkers started and not yet done: "running", or the signal emitted and not yet handled
    users,            \* AuthService: the 'users' mapping of users.json
    session,          \* AuthService: session.json, <<>> when the file does not exist
    auth_call,        \* AuthService: the last call, its arguments and the value it returned
    ol_status,        \* OllamaService.generate: response.status_code
    ol_lines,         \* OllamaService.generate: what response.iter_lines() yields
    ol_i,             \* OllamaService.generate: number of lines the for loop has consumed
    full_response,    \* OllamaService.generate: local `full_response`
    progress_calls,   \* OllamaService.generate: the arguments of the calls of on_progress
    ol_pc,            \* OllamaService.generate: "idle" | "loop" | "after" | "returned" | "raised"
    ol_result         \* OllamaService.generate: the value returned, or the message of the exception

ps_vars == <<content, ps_pc, ps_i, sections, current_title, current_content, ps_result>>
cb_vars == <<cb_text, cb_pc, cb_out>>
pf_vars == <<pf_text, pf_pc, pf_conv, segments, last_end, matches, pf_result>>
ex_in == <<materials, form_data, version_key, save_path, ex_fmt>>
ex_loop == <<ex_sections, ex_s, ex_lines, ex_l, ex_v, first_line>>
ex_out == <<doc, story, slides, wb, filepath>>
ex_vars == <<ex_in, ex_pc, ex_loop, ex_out>>
job_vars == <<jobs, written>>
ex_rest == <<version_key, save_path, ex_fmt, ex_pc, ex_loop, ex_out>>
gw_vars == <<generate_btn, gw_pc, gw_i, results, gw_prompts, emitted, handled,
             form_at_start, edits, replies>>
chat_vars == <<start_btn, send_btn, message_input, messages, chat_workers>>
auth_vars == <<users, session, auth_call>>
ol_vars == <<ol_status, ol_lines, ol_i, full_response, progress_calls, ol_pc, ol_result>>
svc_vars == <<auth_vars, ol_vars>>
app_vars == <<gw_vars, chat_vars, svc_vars>>
vars == <<ps_vars, cb_vars, pf_vars, ex_vars, job_vars, app_vars>>

(***************************************************************************)
(* Bounds of the model.                                                    *)
(***************************************************************************)
MaxContentLen == 5
MaxTextLen == 4
MaxLineLen == 7
MaxBodyLen == 4
MaxTagLen == 6
MaxDeckLen == 6
MaxCellLen == 5
MaxPad == 29
MaxTailLen == 2
MaxEntryLen == 2
MaxEdits == 1
MaxChatWorkers == 2
MaxMessages == 3
MaxStreamLen == 3
MaxDocLines == 3

(***************************************************************************)
(* Characters and strings.                                                 *)
(***************************************************************************)
NL == "\n"
TAB == "\t"
SP == " "
STAR == "*"
HASH == "#"

\* The characters Python's str.strip() and the regex class \s treat as
\* whitespace, restricted to the ones the model's alphabets use.
IsSpace(c) == c \in {SP, TAB, NL, "\r"}

\* The regex '.' (no DOTALL flag): any character except a newline.
IsDot(c) == c # NL

Strings(alphabet, maxLen) == UNION {[1..n -> alphabet] : n \in 0..maxLen}

SectionAlphabet == {HASH, STAR, SP, "a", NL}

Max(S) == CHOOSE x \in S : \A y \in S : y <= x
Min(S) == CHOOSE x \in S : \A y \in S : x <= y

\* s[from..to] (1-based, inclusive), empty when to < from.
Slice(s, from, to) == SubSeq(s, from, to)

IsStar(c) == c = STAR
IsHash(c) == c = HASH

\* Every character of s[from..to] is of the class (vacuous when to < from).
AllStars(s, from, to) == \A k \in from..to : IsStar(s[k])
AllHashes(s, from, to) == \A k \in from..to : IsHash(s[k])
AllSpaces(s, from, to) == \A k \in from..to : IsSpace(s[k])
AllDots(s, from, to) == \A k \in from..to : IsDot(s[k])

\* str.lstrip(): only the leading whitespace is removed (a mutant of Strip,
\* and the way C3 removes leading whitespace from a line).
LStrip(s) ==
    IF \A k \in 1..Len(s) : IsSpace(s[k]) THEN <<>>
    ELSE Slice(s, Min({k \in 1..Len(s) : ~IsSpace(s[k])}), Len(s))

\* str.strip(): remove leading and trailing whitespace.
Strip(s) ==
    IF \A k \in 1..Len(s) : IsSpace(s[k]) THEN <<>>
    ELSE Slice(s, Min({k \in 1..Len(s) : ~IsSpace(s[k])}),
                  Max({k \in 1..Len(s) : ~IsSpace(s[k])}))

\* str.split('\n'): the pieces between newlines; always at least one piece.
RECURSIVE SplitFrom(_, _, _)
SplitFrom(s, from, k) ==
    IF k > Len(s) THEN <<Slice(s, from, Len(s))>>
    ELSE IF s[k] = NL THEN <<Slice(s, from, k - 1)>> \o SplitFrom(s, k + 1, k + 1)
    ELSE SplitFrom(s, from, k + 1)

SplitLines(s) == SplitFrom(s, 1, 1)

\* '\n'.join(lines)
RECURSIVE JoinLines(_)
JoinLines(lines) ==
    IF lines = <<>> THEN <<>>
    ELSE IF Len(lines) = 1 THEN lines[1]
    ELSE lines[1] \o <<NL>> \o JoinLines(Tail(lines))

(***************************************************************************)
(* parse_sections: the two heading patterns.                               *)
(*                                                                         *)
(*   header  ^#{1,3}\s*\*{0,2}(.+?)\*{0,2}\s*$                             *)
(*   bold    ^\*\*(.+?)\*\*\s*$                                            *)
(*                                                                         *)
(* re.match anchors at index 0 of the line.  A way to match is the tuple   *)
(* of repetition counts; the backtracking matcher returns the first way in *)
(* its search order: greedy counts from the largest, the lazy group from   *)
(* the shortest, the leftmost quantifier varying slowest.                  *)
(***************************************************************************)

\* h hashes, s whitespace, a stars, a group of n characters, b stars, and
\* only whitespace up to the end of the line.
HeaderWay(line, h, s, a, n, b) ==
    /\ h + s + a + n + b <= Len(line)
    /\ AllHashes(line, 1, h)
    /\ AllSpaces(line, h + 1, h + s)
    /\ AllStars(line, h + s + 1, h + s + a)
    /\ AllDots(line, h + s + a + 1, h + s + a + n)
    /\ AllStars(line, h + s + a + n + 1, h + s + a + n + b)
    /\ AllSpaces(line, h + s + a + n + b + 1, Len(line))

\* The ways to match with the leading counts fixed, the rest free.
HeaderWayN(line, h, s, a, n) == \E b \in 0..2 : HeaderWay(line, h, s, a, n, b)
HeaderWayA(line, h, s, a) == \E n \in 1..Len(line) : HeaderWayN(line, h, s, a, n)
HeaderWayS(line, h, s) ==
    /\ h + s <= Len(line)
    /\ AllSpaces(line, h + 1, h + s)
    /\ \E a \in 0..2 : HeaderWayA(line, h, s, a)
HeaderWayH(line, h) ==
    /\ h <= Len(line)
    /\ AllHashes(line, 1, h)
    /\ \E s \in 0..Len(line) : HeaderWayS(line, h, s)

header_match(line) == \E h \in 1..3 : HeaderWayH(line, h)

\* group(1) of the header match: the first way in the matcher's order.
HeaderGroup(line) ==
    LET h == Max({x \in 1..3 : HeaderWayH(line, x)})
        s == Max({x \in 0..Len(line) : HeaderWayS(line, h, x)})
        a == Max({x \in 0..2 : HeaderWayA(line, h, s, x)})
        n == Min({x \in 1..Len(line) : HeaderWayN(line, h, s, a, x)})
    IN  Slice(line, h + s + a + 1, h + s + a + n)

\* '**', a group of n characters, '**', and only whitespace up to the end.
BoldWay(line, n) ==
    /\ 2 + n + 2 <= Len(line)
    /\ AllStars(line, 1, 2)
    /\ AllDots(line, 3, 2 + n)
    /\ AllStars(line, 3 + n, 4 + n)
    /\ AllSpaces(line, 5 + n, Len(line))

BoldWays(line) == {n \in 1..Len(line) : BoldWay(line, n)}

bold_match(line) == BoldWays(line) # {}

\* group(1) of the bold match.
BoldGroup(line) == Slice(line, 3, 2 + Min(BoldWays(line)))

\* (header_match or bold_match).group(1).strip()
HeadingTitle(line) ==
    Strip(IF header_match(line) THEN HeaderGroup(line) ELSE BoldGroup(line))

IsHeadingLine(line) == header_match(line) \/ bold_match(line)

(***************************************************************************)
(* parse_sections: the state machine of one call.                          *)
(***************************************************************************)
ContentTitle == <<"C", "o", "n", "t", "e", "n", "t">>

Lines == SplitLines(content)

\* The (title, body) pair appended when a section is closed.
ClosedSection(title, body_lines) == <<title, Strip(JoinLines(body_lines))>>

\* Mutant of ReturnValue: the fallback for an empty list is forgotten.
ReturnValue_NoFallback(secs, text) == secs

\* `return sections if sections else [("Content", content)]`
ReturnValue(secs, text) ==
    IF secs # <<>> THEN secs ELSE << <<ContentTitle, text>> >>

\* Entry: the locals are initialised and the loop is about to start.
PSCall ==
    /\ ps_pc = "idle"
    /\ ps_pc' = "loop"
    /\ ps_i' = 0
    /\ sections' = <<>>
    /\ current_title' = ContentTitle
    /\ current_content' = <<>>
    /\ UNCHANGED <<content, ps_result, cb_vars, pf_vars, ex_vars, job_vars, app_vars>>

\* Mutant of PSHeadingLine: current_title is overwritten before the pending
\* section is closed, so the section gets the title of the heading after it.
PSHeadingLine_TitleSetFirst ==
    /\ ps_pc = "loop"
    /\ ps_i < Len(Lines)
    /\ IsHeadingLine(Lines[ps_i + 1]) = TRUE
    /\ sections' = IF current_content # <<>>
                   THEN Append(sections,
                               ClosedSection(HeadingTitle(Lines[ps_i + 1]), current_content))
                   ELSE sections
    /\ current_content' = <<>>
    /\ current_title' = HeadingTitle(Lines[ps_i + 1])
    /\ ps_i' = ps_i + 1
    /\ UNCHANGED <<content, ps_pc, ps_result, cb_vars, pf_vars, ex_vars, job_vars, app_vars>>

\* Mutant of PSHeadingLine: the pending section is closed even when no line
\* was gathered for it.
PSHeadingLine_AlwaysCloses ==
    /\ ps_pc = "loop"
    /\ ps_i < Len(Lines)
    /\ IsHeadingLine(Lines[ps_i + 1]) = TRUE
    /\ sections' = Append(sections, ClosedSection(current_title, current_content))
    /\ current_content' = <<>>
    /\ current_title' = HeadingTitle(Lines[ps_i + 1])
    /\ ps_i' = ps_i + 1
    /\ UNCHANGED <<content, ps_pc, ps_result, cb_vars, pf_vars, ex_vars, job_vars, app_vars>>

\* One iteration of the for loop on a heading line.
PSHeadingLine ==
    /\ ps_pc = "loop"
    /\ ps_i < Len(Lines)
    /\ IsHeadingLine(Lines[ps_i + 1]) = TRUE
    /\ sections' = IF current_content # <<>>
                   THEN Append(sections, ClosedSection(current_title, current_content))
                   ELSE sections
    /\ current_content' = <<>>
    /\ current_title' = HeadingTitle(Lines[ps_i + 1])
    /\ ps_i' = ps_i + 1
    /\ UNCHANGED <<content, ps_pc, ps_result, cb_vars, pf_vars, ex_vars, job_vars, app_vars>>

\* One iteration of the for loop on any other line.
PSBodyLine ==
    /\ ps_pc = "loop"
    /\ ps_i < Len(Lines)
    /\ ~IsHeadingLine(Lines[ps_i + 1])
    /\ current_content' = Append(current_content, Lines[ps_i + 1])
    /\ ps_i' = ps_i + 1
    /\ UNCHANGED <<content, ps_pc, sections, current_title, ps_result, cb_vars, pf_vars, ex_vars, job_vars, app_vars>>

\* After the loop: the final section and the return statement.
PSReturn ==
    /\ ps_pc = "loop"
    /\ ps_i = Len(Lines)
    /\ LET final == IF current_content # <<>>
                    THEN Append(sections, ClosedSection(current_title, current_content))
                    ELSE sections
       IN  /\ sections' = final
           /\ ps_result' = ReturnValue(final, content)
    /\ ps_pc' = "done"
    /\ UNCHANGED <<content, ps_i, current_title, current_content, cb_vars, pf_vars, ex_vars, job_vars, app_vars>>

\* Before a call of parse_sections with argument c.
PSBefore(c) ==
    /\ content = c
    /\ ps_pc = "idle"
    /\ ps_i = 0
    /\ sections = <<>>
    /\ current_title = <<>>
    /\ current_content = <<>>
    /\ ps_result = <<>>

(***************************************************************************)
(* convert_checkboxes: two re.sub passes.                                  *)
(***************************************************************************)
CHECKBOX_UNCHECKED == "U+2610"
CHECKBOX_CHECKED == "U+2611"

CheckboxAlphabet == {"[", "]", "x", "X", SP, TAB, "a"}

\* Length of the match of \[x\]|\[X\] at 1-based index k, 0 when none.
CheckedLenAt(s, k) ==
    IF /\ k + 2 <= Len(s)
       /\ s[k] = "["
       /\ s[k + 1] \in {"x", "X"}
       /\ s[k + 2] = "]"
    THEN 3 ELSE 0

\* Length of the match of \[\s?\] at 1-based index k, 0 when none: the
\* optional \s is tried first (greedy), then skipped.
UncheckedLenAt(s, k) ==
    IF k + 2 <= Len(s) /\ s[k] = "[" /\ IsSpace(s[k + 1]) /\ s[k + 2] = "]" THEN 3
    ELSE IF k + 1 <= Len(s) /\ s[k] = "[" /\ s[k + 1] = "]" THEN 2
    ELSE 0

\* re.sub(r'\[x\]|\[X\]', CHECKBOX_CHECKED, s), scanning from index k.
RECURSIVE SubCheckedFrom(_, _)
SubCheckedFrom(s, k) ==
    IF k > Len(s) THEN <<>>
    ELSE IF CheckedLenAt(s, k) > 0
         THEN <<CHECKBOX_CHECKED>> \o SubCheckedFrom(s, k + CheckedLenAt(s, k))
         ELSE <<s[k]>> \o SubCheckedFrom(s, k + 1)

SubChecked(s) == SubCheckedFrom(s, 1)

\* re.sub(r'\[\s?\]', CHECKBOX_UNCHECKED, s), scanning from index k.
RECURSIVE SubUncheckedFrom(_, _)
SubUncheckedFrom(s, k) ==
    IF k > Len(s) THEN <<>>
    ELSE IF UncheckedLenAt(s, k) > 0
         THEN <<CHECKBOX_UNCHECKED>> \o SubUncheckedFrom(s, k + UncheckedLenAt(s, k))
         ELSE <<s[k]>> \o SubUncheckedFrom(s, k + 1)

SubUnchecked(s) == SubUncheckedFrom(s, 1)

\* The function as a whole, as its callers use it.
convert_checkboxes(s) == SubUnchecked(SubChecked(s))

\* Before a call of convert_checkboxes with argument s.
CBBefore(s) ==
    /\ cb_text = s
    /\ cb_pc = "idle"
    /\ cb_out = <<>>

\* First statement: the checked boxes.
CBChecked ==
    /\ cb_pc = "idle"
    /\ cb_out' = SubChecked(cb_text)
    /\ cb_pc' = "checked"
    /\ UNCHANGED <<cb_text, ps_vars, pf_vars, ex_vars, job_vars, app_vars>>

\* Second statement: the unchecked boxes; then the return.
CBUnchecked ==
    /\ cb_pc = "checked"
    /\ cb_out' = SubUnchecked(cb_out)
    /\ cb_pc' = "done"
    /\ UNCHANGED <<cb_text, ps_vars, pf_vars, ex_vars, job_vars, app_vars>>

(***************************************************************************)
(* parse_formatted_text: the emphasis pattern, an alternation of three     *)
(* alternatives in this order, each a lazy group .+? between delimiters:   *)
(*                                                                         *)
(*   group 2: three stars, .+?, three stars     (bold and italic)          *)
(*   group 3: two stars,   .+?, two stars       (bold)                     *)
(*   group 4: one star,    .+?, one star        (italic)                   *)
(*                                                                         *)
(* Offsets are Python's: 0-based, text[a:b] is Slice(text, a + 1, b).      *)
(***************************************************************************)
InlineAlphabet == {STAR, "a", "[", "]"}

NoMatch == [delim |-> 0, start |-> 0, end |-> 0]

\* Mutant of LazyLen: the end of the line closes a group that no delimiter
\* closes, so an unterminated '*' opens emphasis up to the end of the line.
RECURSIVE LazyLen_ClosedByEndOfLine(_, _, _, _)
LazyLen_ClosedByEndOfLine(t, g, d, n) ==
    IF g + n > Len(t) THEN 0
    ELSE IF ~IsDot(t[g + n]) THEN 0
    ELSE IF g + n + d <= Len(t) /\ AllStars(t, g + n + 1, g + n + d) THEN n
    ELSE IF g + n = Len(t) THEN n
    ELSE LazyLen_ClosedByEndOfLine(t, g, d, n + 1)

\* The lazy group (.+?) that starts at offset g and must be closed by d
\* stars: try n = 1, 2, ... characters; '.' stops at a newline.  The length
\* found, 0 when the alternative fails.
RECURSIVE LazyLen(_, _, _, _)
LazyLen(t, g, d, n) ==
    IF g + n + d > Len(t) THEN 0
    ELSE IF ~IsDot(t[g + n]) THEN 0
    ELSE IF AllStars(t, g + n + 1, g + n + d) THEN n
    ELSE LazyLen(t, g, d, n + 1)

\* One alternative, d stars on each side, tried at offset p: the length of
\* its group, 0 when it does not match there.
AltLen(t, p, d) ==
    IF p + d <= Len(t) /\ AllStars(t, p + 1, p + d)
    THEN LazyLen(t, p + d, d, 1)
    ELSE 0

AltMatch(t, p, d) == [delim |-> d, start |-> p, end |-> p + 2 * d + AltLen(t, p, d)]

\* Mutant of MatchAt: the alternatives are tried in the opposite order.
MatchAt_ShortestDelimiterFirst(t, p) ==
    IF AltLen(t, p, 1) > 0 THEN AltMatch(t, p, 1)
    ELSE IF AltLen(t, p, 2) > 0 THEN AltMatch(t, p, 2)
    ELSE IF AltLen(t, p, 3) > 0 THEN AltMatch(t, p, 3)
    ELSE NoMatch

\* The alternation at offset p: '***' first, then '**', then '*'.
MatchAt(t, p) ==
    IF AltLen(t, p, 3) > 0 THEN AltMatch(t, p, 3)
    ELSE IF AltLen(t, p, 2) > 0 THEN AltMatch(t, p, 2)
    ELSE IF AltLen(t, p, 1) > 0 THEN AltMatch(t, p, 1)
    ELSE NoMatch

\* The next match re.finditer yields when its scan stands at offset p.
RECURSIVE SearchFrom(_, _)
SearchFrom(t, p) ==
    IF p >= Len(t) THEN NoMatch
    ELSE IF MatchAt(t, p) # NoMatch THEN MatchAt(t, p)
    ELSE SearchFrom(t, p + 1)

\* match.group(2), group(3) or group(4): the one that took part.
MatchGroup(t, m) == Slice(t, m.start + m.delim + 1, m.end - m.delim)

\* The segment appended for a match: the if / elif / elif on the groups.
MatchSegment(t, m) ==
    IF m.delim = 3 THEN <<MatchGroup(t, m), TRUE, TRUE>>
    ELSE IF m.delim = 2 THEN <<MatchGroup(t, m), TRUE, FALSE>>
    ELSE <<MatchGroup(t, m), FALSE, TRUE>>

PlainSegment(s) == <<s, FALSE, FALSE>>

\* Before a call of parse_formatted_text with argument s.
PFBefore(s) ==
    /\ pf_text = s
    /\ pf_pc = "idle"
    /\ pf_conv = <<>>
    /\ segments = <<>>
    /\ last_end = 0
    /\ matches = <<>>
    /\ pf_result = <<>>

\* Entry: the checkboxes are converted and the locals initialised.
PFCall ==
    /\ pf_pc = "idle"
    /\ pf_conv' = convert_checkboxes(pf_text)
    /\ segments' = <<>>
    /\ last_end' = 0
    /\ matches' = <<>>
    /\ pf_pc' = "scan"
    /\ UNCHANGED <<pf_text, pf_result, ps_vars, cb_vars, ex_vars, job_vars, app_vars>>

\* One iteration of the for loop: the next match of re.finditer.
PFMatch ==
    /\ pf_pc = "scan"
    /\ SearchFrom(pf_conv, last_end) # NoMatch
    /\ LET m == SearchFrom(pf_conv, last_end)
           before == IF m.start > last_end
                     THEN <<PlainSegment(Slice(pf_conv, last_end + 1, m.start))>>
                     ELSE <<>>
       IN  /\ segments' = segments \o before \o <<MatchSegment(pf_conv, m)>>
           /\ matches' = Append(matches, m)
           /\ last_end' = m.end
    /\ UNCHANGED <<pf_text, pf_pc, pf_conv, pf_result, ps_vars, cb_vars, ex_vars, job_vars, app_vars>>

\* Mutant of PFReturn: the text after the last match is not appended.
PFReturn_DropsRest ==
    /\ pf_pc = "scan"
    /\ SearchFrom(pf_conv, last_end) = NoMatch
    /\ LET final == IF segments = <<>> THEN <<PlainSegment(pf_conv)>> ELSE segments
       IN  /\ segments' = final
           /\ pf_result' = final
    /\ pf_pc' = "done"
    /\ UNCHANGED <<pf_text, pf_conv, last_end, matches, ps_vars, cb_vars, ex_vars, job_vars, app_vars>>

\* After the loop: the remaining text, the no-formatting case, the return.
PFReturn ==
    /\ pf_pc = "scan"
    /\ SearchFrom(pf_conv, last_end) = NoMatch
    /\ LET with_rest == IF last_end < Len(pf_conv)
                        THEN Append(segments,
                                    PlainSegment(Slice(pf_conv, last_end + 1, Len(pf_conv))))
                        ELSE segments
           final == IF with_rest = <<>> THEN <<PlainSegment(pf_conv)>> ELSE with_rest
       IN  /\ segments' = final
           /\ pf_result' = final
    /\ pf_pc' = "done"
    /\ UNCHANGED <<pf_text, pf_conv, last_end, matches, ps_vars, cb_vars, ex_vars, job_vars, app_vars>>

(***************************************************************************)
(* The two parsers as the exporters call them: one call, from its argument *)
(* to its return value.                                                    *)
(***************************************************************************)

\* The for loop of parse_sections from line i on, then the final section.
RECURSIVE SectionsLoop(_, _, _, _, _)
SectionsLoop(lines, i, secs, title, body_lines) ==
    IF i > Len(lines)
    THEN IF body_lines # <<>> THEN Append(secs, ClosedSection(title, body_lines)) ELSE secs
    ELSE IF IsHeadingLine(lines[i])
         THEN SectionsLoop(lines, i + 1,
                           IF body_lines # <<>>
                           THEN Append(secs, ClosedSection(title, body_lines))
                           ELSE secs,
                           HeadingTitle(lines[i]), <<>>)
         ELSE SectionsLoop(lines, i + 1, secs, title, Append(body_lines, lines[i]))

parse_sections(text) ==
    ReturnValue(SectionsLoop(SplitLines(text), 1, <<>>, ContentTitle, <<>>), text)

\* The for loop of parse_formatted_text over re.finditer from offset p on,
\* then the remaining text.
RECURSIVE SegmentsLoop(_, _)
SegmentsLoop(t, p) ==
    LET m == SearchFrom(t, p)
    IN  IF m = NoMatch
        THEN IF p < Len(t) THEN <<PlainSegment(Slice(t, p + 1, Len(t)))>> ELSE <<>>
        ELSE (IF m.start > p THEN <<PlainSegment(Slice(t, p + 1, m.start))>> ELSE <<>>)
             \o <<MatchSegment(t, m)>>
             \o SegmentsLoop(t, m.end)

parse_formatted_text(text) ==
    LET t == convert_checkboxes(text)
        segs == SegmentsLoop(t, 0)
    IN  IF segs = <<>> THEN <<PlainSegment(t)>> ELSE segs

(***************************************************************************)
(* The exporters: what they do with one line of a section body.            *)
(***************************************************************************)
DASH == "-"
DOT == "."
BULLET == "U+2022"

IsDigit(c) == c \in {"0", "1", "2", "3", "4", "5", "6", "7", "8", "9"}

\* line.startswith('- ') or line.startswith('* ')
StartsWithBullet(line) ==
    /\ Len(line) >= 2
    /\ line[1] \in {DASH, STAR}
    /\ line[2] = SP

\* The number of characters of the class at the start of s[from..].
LeadingDigits(s) == Max({n \in 0..Len(s) : \A k \in 1..n : IsDigit(s[k])})
SpacesFrom(s, from) == Max({n \in 0..(Len(s) - from + 1) : AllSpaces(s, from, from + n - 1)})

\* Mutant of NumberPrefixLen: the whitespace after the period is not part of
\* the prefix.
NumberPrefixLen_KeepsSpaces(line) ==
    LET nd == LeadingDigits(line)
    IN  IF nd >= 1 /\ Len(line) > nd /\ line[nd + 1] = DOT THEN nd + 1 ELSE 0

\* Length of the match of ^\d+\.\s* at the start of the line, 0 when none:
\* all the digits, the period, all the whitespace after it.
NumberPrefixLen(line) ==
    LET nd == LeadingDigits(line)
    IN  IF nd >= 1 /\ Len(line) > nd /\ line[nd + 1] = DOT
        THEN nd + 1 + SpacesFrom(line, nd + 2)
        ELSE 0

\* re.match(r'^\d+\.\s*', line)
number_match(line) == NumberPrefixLen(line) > 0

\* re.sub(r'^\d+\.\s*', '', line)
RemoveNumberPrefix(line) == Slice(line, NumberPrefixLen(line) + 1, Len(line))

\* line[2:]
AfterMarker(line) == Slice(line, 3, Len(line))

\* The paragraph export_to_docx adds for a stripped, non-empty line: its
\* style, the local line_content and the runs added for it.
DocxParagraph(line) ==
    IF StartsWithBullet(line)
    THEN [style |-> "List Bullet", line_content |-> AfterMarker(line),
          runs |-> parse_formatted_text(AfterMarker(line))]
    ELSE IF number_match(line)
    THEN [style |-> "List Number", line_content |-> RemoveNumberPrefix(line),
          runs |-> parse_formatted_text(RemoveNumberPrefix(line))]
    ELSE [style |-> "Normal", line_content |-> line,
          runs |-> parse_formatted_text(line)]

\* Mutant of PptxParagraph: the marker is recognised but left in the line.
PptxParagraph_KeepsMarker(stripped) ==
    LET line == convert_checkboxes(stripped)
    IN  [branch |-> IF StartsWithBullet(line) THEN "bullet"
                    ELSE IF number_match(line) THEN "number" ELSE "plain",
         level |-> IF StartsWithBullet(line) \/ number_match(line) THEN 1 ELSE 0,
         line |-> line,
         runs |-> parse_formatted_text(line)]

\* The paragraph export_to_pptx fills for a stripped, non-empty line: the
\* checkboxes first, then the marker, the level and the runs.  `branch` is
\* the arm of the if / elif that ran.
PptxParagraph(stripped) ==
    LET line == convert_checkboxes(stripped)
    IN  IF StartsWithBullet(line)
        THEN [branch |-> "bullet", level |-> 1, line |-> AfterMarker(line),
              runs |-> parse_formatted_text(AfterMarker(line))]
        ELSE IF number_match(line)
        THEN [branch |-> "number", level |-> 1, line |-> RemoveNumberPrefix(line),
              runs |-> parse_formatted_text(RemoveNumberPrefix(line))]
        ELSE [branch |-> "plain", level |-> 0, line |-> line,
              runs |-> parse_formatted_text(line)]

\* The paragraph a new text frame holds before any line is written.
EmptyParagraph == [branch |-> "none", level |-> 0, line |-> <<>>, runs |-> <<>>]

\* re.sub of the emphasis pattern with d stars on each side, from offset p
\* on: every match, left to right, becomes open, its group, close.
RECURSIVE SubEmphasis(_, _, _, _, _)
SubEmphasis(t, p, d, open, close) ==
    IF p >= Len(t) THEN <<>>
    ELSE IF AltLen(t, p, d) > 0
         THEN open \o Slice(t, p + d + 1, p + d + AltLen(t, p, d)) \o close
              \o SubEmphasis(t, p + 2 * d + AltLen(t, p, d), d, open, close)
         ELSE <<t[p + 1]>> \o SubEmphasis(t, p + 1, d, open, close)

B_OPEN == <<"<", "b", ">">>
B_CLOSE == <<"<", "/", "b", ">">>
I_OPEN == <<"<", "i", ">">>
I_CLOSE == <<"<", "/", "i", ">">>

\* The three re.sub of export_to_pdf, after convert_checkboxes.
PdfTags(stripped) ==
    LET line0 == convert_checkboxes(stripped)
        line3 == SubEmphasis(line0, 0, 3, B_OPEN \o I_OPEN, I_CLOSE \o B_CLOSE)
        line2 == SubEmphasis(line3, 0, 2, B_OPEN, B_CLOSE)
    IN  SubEmphasis(line2, 0, 1, I_OPEN, I_CLOSE)

\* The flowable export_to_pdf appends for a stripped, non-empty line.
PdfParagraph(stripped) ==
    LET line == PdfTags(stripped)
    IN  IF StartsWithBullet(line)
        THEN [branch |-> "bullet", text |-> <<BULLET, SP>> \o AfterMarker(line)]
        ELSE IF number_match(line)
        THEN [branch |-> "number", text |-> line]
        ELSE [branch |-> "plain", text |-> line]

\* The three re.sub of export_all_to_xlsx, after convert_checkboxes: the
\* replacement is the group alone.
CleanedContent(section_content) ==
    LET c0 == convert_checkboxes(section_content)
        c3 == SubEmphasis(c0, 0, 3, <<>>, <<>>)
        c2 == SubEmphasis(c3, 0, 2, <<>>, <<>>)
    IN  SubEmphasis(c2, 0, 1, <<>>, <<>>)

(***************************************************************************)
(* The exporters' inputs.  A dict is a function on the keys it holds; a    *)
(* fixed text of the program that no step looks into (a label, a display   *)
(* name, a date) is written as one element of the sequence it is part of.  *)
(***************************************************************************)
EmptyDict == [k \in {} |-> <<>>]

\* d.get(k, default)
DictGet(d, k, default) == IF k \in DOMAIN d THEN d[k] ELSE default

\* The keys of VERSION_NAMES, in the order of the dict literal.
VersionKeys ==
    << <<"s", "i", "m", "p", "l", "i", "f", "i", "e", "d">>,
       <<"o", "n", "_", "l", "e", "v", "e", "l">>,
       <<"e", "n", "r", "i", "c", "h", "e", "d">>,
       <<"v", "i", "s", "u", "a", "l", "_", "h", "e", "a", "v", "y">>,
       <<"s", "c", "a", "f", "f", "o", "l", "d", "e", "d">> >>

VersionDisplayNames ==
    << <<"Simplified (Below Grade Level)">>,
       <<"On-Level (Grade Appropriate)">>,
       <<"Enriched (Above Grade Level)">>,
       <<"Visual-Heavy">>,
       <<"Step-by-Step Scaffolded">> >>

VERSION_NAMES ==
    [k \in {VersionKeys[n] : n \in 1..Len(VersionKeys)} |->
        VersionDisplayNames[CHOOSE n \in 1..Len(VersionKeys) : VersionKeys[n] = k]]

NoContentGenerated == <<"N", "o", " ", "c", "o", "n", "t", "e", "n", "t", " ", "g", "e", "n", "e", "r", "a", "t", "e", "d">>
DefaultObjective == <<"m", "a", "t", "e", "r", "i", "a", "l", "s">>
NotAvailable == <<"N", "/", "A">>
LearningMaterials == <<"L", "e", "a", "r", "n", "i", "n", "g", " ", "M", "a", "t", "e", "r", "i", "a", "l", "s">>
DateToday == <<"%B %d, %Y">>
DateNow == <<"%B %d, %Y %H:%M">>
CreditLine == <<"Generated by Assignment Differentiation Wizard">>

\* materials.get(version_key, {}).get('content', 'No content generated')
VersionContent(mats, key) ==
    DictGet(DictGet(mats, key, EmptyDict), "content", NoContentGenerated)

\* s[:n]
Take(s, n) == Slice(s, 1, Min({n, Len(s)}))

ForbiddenChars == {"<", ">", ":", "\"", "/", "\\", "|", "?", "*"}

IsAllowedChar(c) == c \notin ForbiddenChars

\* Mutant of sanitize_filename: the characters are not removed.
sanitize_filename_KeepsAll(name) == Take(name, 50)

\* re.sub(r'[<>:"/\\|?*]', '', name)[:50]
sanitize_filename(name) == Take(SelectSeq(name, IsAllowedChar), 50)

\* sanitize_filename(form_data.get('learning_objective', 'materials')[:30])
ObjectiveShort(fd) ==
    sanitize_filename(Take(DictGet(fd, "learning_objective", DefaultObjective), 30))

\* Mutant of FileStem: the version key is left out of the name.
FileStem_NoKey(fmt, key) ==
    IF fmt = "xlsx" THEN <<"U", "D", "L", "_", "A", "l", "l", "V", "e", "r", "s", "i", "o", "n", "s", "_">>
    ELSE <<"U", "D", "L", "_">>

\* f"UDL_{version_key}_" and f"UDL_AllVersions_"
FileStem(fmt, key) ==
    IF fmt = "xlsx" THEN <<"U", "D", "L", "_", "A", "l", "l", "V", "e", "r", "s", "i", "o", "n", "s", "_">>
    ELSE <<"U", "D", "L", "_">> \o key \o <<"_">>

FileExtension(fmt) ==
    IF fmt = "docx" THEN <<".", "d", "o", "c", "x">>
    ELSE IF fmt = "pdf" THEN <<".", "p", "d", "f">>
    ELSE IF fmt = "pptx" THEN <<".", "p", "p", "t", "x">>
    ELSE <<".", "x", "l", "s", "x">>

\* f"UDL_{version_key}_{objective_short}.docx" and its three siblings.
FileName(fmt, key, fd) == FileStem(fmt, key) \o ObjectiveShort(fd) \o FileExtension(fmt)

\* os.path.join(save_path, filename), the file name being relative.
PathJoin(dir, name) ==
    IF dir = <<>> THEN name
    ELSE IF dir[Len(dir)] = "/" THEN dir \o name
    ELSE dir \o <<"/">> \o name

FilePath(fmt, key, fd, dir) == PathJoin(dir, FileName(fmt, key, fd))

(***************************************************************************)
(* The exporters: the state machine of one call.                           *)
(*                                                                         *)
(* ex_pc is "idle" before the call, "loop" inside the nested for loops and *)
(* "done" after the file is saved.  In "loop", ex_l = Len(ex_lines) says   *)
(* that the line loop of the current section is over (or that no section   *)
(* has been entered yet), and ex_s = Len(ex_sections) that the section     *)
(* loop is over.                                                           *)
(***************************************************************************)
\* Before a call of the exporter fmt with these arguments.
ExportBefore(fmt, mats, fd, key, dir) ==
    /\ ex_fmt = fmt
    /\ materials = mats
    /\ form_data = fd
    /\ version_key = key
    /\ save_path = dir
    /\ ex_pc = "idle"
    /\ ex_sections = <<>>
    /\ ex_s = 0
    /\ ex_lines = <<>>
    /\ ex_l = 0
    /\ ex_v = 0
    /\ first_line = TRUE
    /\ doc = <<>>
    /\ story = <<>>
    /\ slides = <<>>
    /\ wb = <<>>
    /\ filepath = <<>>

\* No exporter is called.
ExportIdle == ExportBefore("none", EmptyDict, EmptyDict, <<>>, <<>>)

\* VERSION_NAMES.get(version_key, version_key)
version_name == DictGet(VERSION_NAMES, version_key, version_key)

\* form_data.get(k, 'N/A')
FormValue(k) == DictGet(form_data, k, NotAvailable)

\* `if form_data.get('subject')`
HasSubject == "subject" \in DOMAIN form_data /\ form_data["subject"] # <<>>

\* The section loop is at a section boundary; the line loop is at a line.
AtSectionBoundary == ex_pc = "loop" /\ ex_l = Len(ex_lines)
AtLine == ex_pc = "loop" /\ ex_l < Len(ex_lines)

\* `line = line.strip()` on the line the loop stands at.
StrippedLine == Strip(ex_lines[ex_l + 1])

\* The section the section loop enters next.
NextSection == ex_sections[ex_s + 1]

(***************************************************************************)
(* export_to_docx.  The document is the list of its paragraphs.            *)
(***************************************************************************)
DocxBlock(style, text) ==
    [style |-> style, line_content |-> <<>>, runs |-> <<PlainSegment(text)>>]

DocxPreamble ==
    << DocxBlock("Title", <<"UDL Learning Materials: ">> \o version_name),
       DocxBlock("Normal", <<"Learning Objective: ">> \o FormValue("learning_objective")),
       DocxBlock("Normal", <<"Grade Level: ">> \o FormValue("grade_level")) >>
    \o (IF HasSubject
        THEN <<DocxBlock("Normal", <<"Subject: ">> \o form_data["subject"])>>
        ELSE <<>>)
    \o << DocxBlock("Normal", <<"Generated: ">> \o DateToday),
          DocxBlock("Normal", <<>>) >>

DocxFooter == <<DocxBlock("Normal", <<>>), DocxBlock("Footer", CreditLine)>>

\* Title, metadata, spacer; then parse_sections.
DocxCall ==
    /\ ex_fmt = "docx"
    /\ ex_pc = "idle"
    /\ doc' = DocxPreamble
    /\ ex_sections' = parse_sections(VersionContent(materials, version_key))
    /\ ex_s' = 0
    /\ ex_lines' = <<>>
    /\ ex_l' = 0
    /\ ex_pc' = "loop"
    /\ UNCHANGED <<ex_in, ex_v, first_line, story, slides, wb, filepath>>
    /\ UNCHANGED <<ps_vars, cb_vars, pf_vars, job_vars, app_vars>>

\* One iteration of the section loop: the heading, then the line loop starts.
DocxSection ==
    /\ ex_fmt = "docx"
    /\ AtSectionBoundary
    /\ ex_s < Len(ex_sections)
    /\ doc' = Append(doc, DocxBlock("Heading 1", NextSection[1]))
    /\ ex_lines' = SplitLines(NextSection[2])
    /\ ex_l' = 0
    /\ ex_s' = ex_s + 1
    /\ UNCHANGED <<ex_in, ex_pc, ex_sections, ex_v, first_line, story, slides, wb, filepath>>
    /\ UNCHANGED <<ps_vars, cb_vars, pf_vars, job_vars, app_vars>>

\* One iteration of the line loop on a line that strips to nothing.
DocxBlankLine ==
    /\ ex_fmt = "docx"
    /\ AtLine
    /\ StrippedLine = <<>>
    /\ ex_l' = ex_l + 1
    /\ UNCHANGED <<ex_in, ex_pc, ex_sections, ex_s, ex_lines, ex_v, first_line, ex_out>>
    /\ UNCHANGED <<ps_vars, cb_vars, pf_vars, job_vars, app_vars>>

\* What the three arms of the if / elif / else share: the paragraph is
\* added with its style and filled by add_formatted_text_to_paragraph.
DocxAddParagraph ==
    /\ doc' = Append(doc, DocxParagraph(StrippedLine))
    /\ ex_l' = ex_l + 1
    /\ UNCHANGED <<ex_in, ex_pc, ex_sections, ex_s, ex_lines, ex_v, first_line>>
    /\ UNCHANGED <<story, slides, wb, filepath>>
    /\ UNCHANGED <<ps_vars, cb_vars, pf_vars, job_vars, app_vars>>

DocxBulletLine ==
    /\ ex_fmt = "docx"
    /\ AtLine
    /\ StrippedLine # <<>>
    /\ StartsWithBullet(StrippedLine)
    /\ DocxAddParagraph

DocxNumberedLine ==
    /\ ex_fmt = "docx"
    /\ AtLine
    /\ StrippedLine # <<>>
    /\ ~StartsWithBullet(StrippedLine)
    /\ number_match(StrippedLine)
    /\ DocxAddParagraph

DocxPlainLine ==
    /\ ex_fmt = "docx"
    /\ AtLine
    /\ StrippedLine # <<>>
    /\ ~StartsWithBullet(StrippedLine)
    /\ ~number_match(StrippedLine)
    /\ DocxAddParagraph

\* After the loops: the footer, the file name, doc.save.
DocxSave ==
    /\ ex_fmt = "docx"
    /\ AtSectionBoundary
    /\ ex_s = Len(ex_sections)
    /\ doc' = doc \o DocxFooter
    /\ filepath' = FilePath("docx", version_key, form_data, save_path)
    /\ ex_pc' = "done"
    /\ UNCHANGED <<ex_in, ex_loop, story, slides, wb>>
    /\ UNCHANGED <<ps_vars, cb_vars, pf_vars, job_vars, app_vars>>

(***************************************************************************)
(* export_to_pdf.  The story is the list of its flowables.                 *)
(***************************************************************************)
PdfBlock(branch, text) == [branch |-> branch, text |-> text]

PdfPreamble ==
    << PdfBlock("title", <<"UDL Learning Materials: ">> \o version_name),
       PdfBlock("spacer", <<>>),
       PdfBlock("meta", <<"<b>Learning Objective:</b> ">> \o FormValue("learning_objective")),
       PdfBlock("meta", <<"<b>Grade Level:</b> ">> \o FormValue("grade_level")) >>
    \o (IF HasSubject
        THEN <<PdfBlock("meta", <<"<b>Subject:</b> ">> \o form_data["subject"])>>
        ELSE <<>>)
    \o << PdfBlock("meta", <<"<b>Generated:</b> ">> \o DateToday),
          PdfBlock("spacer", <<>>) >>

PdfFooter ==
    <<PdfBlock("spacer", <<>>), PdfBlock("footer", I_OPEN \o CreditLine \o I_CLOSE)>>

\* The file name first, then title, metadata, spacer and parse_sections.
PdfCall ==
    /\ ex_fmt = "pdf"
    /\ ex_pc = "idle"
    /\ filepath' = FilePath("pdf", version_key, form_data, save_path)
    /\ story' = PdfPreamble
    /\ ex_sections' = parse_sections(VersionContent(materials, version_key))
    /\ ex_s' = 0
    /\ ex_lines' = <<>>
    /\ ex_l' = 0
    /\ ex_pc' = "loop"
    /\ UNCHANGED <<ex_in, ex_v, first_line, doc, slides, wb>>
    /\ UNCHANGED <<ps_vars, cb_vars, pf_vars, job_vars, app_vars>>

PdfSection ==
    /\ ex_fmt = "pdf"
    /\ AtSectionBoundary
    /\ ex_s < Len(ex_sections)
    /\ story' = Append(story, PdfBlock("header", NextSection[1]))
    /\ ex_lines' = SplitLines(NextSection[2])
    /\ ex_l' = 0
    /\ ex_s' = ex_s + 1
    /\ UNCHANGED <<ex_in, ex_pc, ex_sections, ex_v, first_line, doc, slides, wb, filepath>>
    /\ UNCHANGED <<ps_vars, cb_vars, pf_vars, job_vars, app_vars>>

PdfBlankLine ==
    /\ ex_fmt = "pdf"
    /\ AtLine
    /\ StrippedLine = <<>>
    /\ ex_l' = ex_l + 1
    /\ UNCHANGED <<ex_in, ex_pc, ex_sections, ex_s, ex_lines, ex_v, first_line, ex_out>>
    /\ UNCHANGED <<ps_vars, cb_vars, pf_vars, job_vars, app_vars>>

\* What the three arms share: the checkboxes and the tags come first, the
\* arm is chosen on the line that results.
PdfAddParagraph ==
    /\ story' = Append(story, PdfParagraph(StrippedLine))
    /\ ex_l' = ex_l + 1
    /\ UNCHANGED <<ex_in, ex_pc, ex_sections, ex_s, ex_lines, ex_v, first_line>>
    /\ UNCHANGED <<doc, slides, wb, filepath>>
    /\ UNCHANGED <<ps_vars, cb_vars, pf_vars, job_vars, app_vars>>

PdfBulletLine ==
    /\ ex_fmt = "pdf"
    /\ AtLine
    /\ StrippedLine # <<>>
    /\ StartsWithBullet(PdfTags(StrippedLine))
    /\ PdfAddParagraph

PdfNumberedLine ==
    /\ ex_fmt = "pdf"
    /\ AtLine
    /\ StrippedLine # <<>>
    /\ ~StartsWithBullet(PdfTags(StrippedLine))
    /\ number_match(PdfTags(StrippedLine))
    /\ PdfAddParagraph

PdfPlainLine ==
    /\ ex_fmt = "pdf"
    /\ AtLine
    /\ StrippedLine # <<>>
    /\ ~StartsWithBullet(PdfTags(StrippedLine))
    /\ ~number_match(PdfTags(StrippedLine))
    /\ PdfAddParagraph

\* After the loops: the footer and doc.build.
PdfBuild ==
    /\ ex_fmt = "pdf"
    /\ AtSectionBoundary
    /\ ex_s = Len(ex_sections)
    /\ story' = story \o PdfFooter
    /\ ex_pc' = "done"
    /\ UNCHANGED <<ex_in, ex_loop, doc, slides, wb, filepath>>
    /\ UNCHANGED <<ps_vars, cb_vars, pf_vars, job_vars, app_vars>>

(***************************************************************************)
(* export_to_pptx.  The presentation is the list of its slides; a slide is *)
(* its layout, its title and the paragraphs of its body.                   *)
(***************************************************************************)
Slide(layout, title, paragraphs) ==
    [layout |-> layout, title |-> title, paragraphs |-> paragraphs]

TitleSlide ==
    Slide(0, <<"UDL Materials: ">> \o version_name,
          << [branch |-> "none", level |-> 0, runs |-> <<>>,
              line |-> DictGet(form_data, "learning_objective", LearningMaterials)
                       \o <<NL, NL, "Grade: ">> \o FormValue("grade_level")] >>)

FinalSlide ==
    Slide(6, <<>>,
          << [branch |-> "none", level |-> 0, runs |-> <<>>, line |-> CreditLine],
             [branch |-> "none", level |-> 0, runs |-> <<>>, line |-> DateToday] >>)

\* The title slide; then parse_sections.
PptxCall ==
    /\ ex_fmt = "pptx"
    /\ ex_pc = "idle"
    /\ slides' = <<TitleSlide>>
    /\ ex_sections' = parse_sections(VersionContent(materials, version_key))
    /\ ex_s' = 0
    /\ ex_lines' = <<>>
    /\ ex_l' = 0
    /\ ex_pc' = "loop"
    /\ UNCHANGED <<ex_in, ex_v, first_line, doc, story, wb, filepath>>
    /\ UNCHANGED <<ps_vars, cb_vars, pf_vars, job_vars, app_vars>>

\* One iteration of the section loop: a slide with the section's title; its
\* text frame holds one empty paragraph.
PptxSection ==
    /\ ex_fmt = "pptx"
    /\ AtSectionBoundary
    /\ ex_s < Len(ex_sections)
    /\ slides' = Append(slides, Slide(1, NextSection[1], <<EmptyParagraph>>))
    /\ ex_lines' = SplitLines(NextSection[2])
    /\ ex_l' = 0
    /\ first_line' = TRUE
    /\ ex_s' = ex_s + 1
    /\ UNCHANGED <<ex_in, ex_pc, ex_sections, ex_v, doc, story, wb, filepath>>
    /\ UNCHANGED <<ps_vars, cb_vars, pf_vars, job_vars, app_vars>>

PptxBlankLine ==
    /\ ex_fmt = "pptx"
    /\ AtLine
    /\ StrippedLine = <<>>
    /\ ex_l' = ex_l + 1
    /\ UNCHANGED <<ex_in, ex_pc, ex_sections, ex_s, ex_lines, ex_v, first_line, ex_out>>
    /\ UNCHANGED <<ps_vars, cb_vars, pf_vars, job_vars, app_vars>>

\* Mutant of WithParagraph: every line gets a new paragraph, the first one
\* too, so the placeholder's empty paragraph stays in front.
WithParagraph_AlwaysAdds(paragraphs, first, p) == Append(paragraphs, p)

\* The paragraphs of the current slide after p is chosen and filled:
\* tf.paragraphs[0] for the first line, tf.add_paragraph() for the others.
WithParagraph(paragraphs, first, p) ==
    IF first THEN <<p>> \o Tail(paragraphs) ELSE Append(paragraphs, p)

\* What the three arms share.
PptxAddParagraph ==
    /\ slides' = [slides EXCEPT ![Len(slides)].paragraphs =
                     WithParagraph(@, first_line, PptxParagraph(StrippedLine))]
    /\ first_line' = FALSE
    /\ ex_l' = ex_l + 1
    /\ UNCHANGED <<ex_in, ex_pc, ex_sections, ex_s, ex_lines, ex_v>>
    /\ UNCHANGED <<doc, story, wb, filepath>>
    /\ UNCHANGED <<ps_vars, cb_vars, pf_vars, job_vars, app_vars>>

PptxBulletLine ==
    /\ ex_fmt = "pptx"
    /\ AtLine
    /\ StrippedLine # <<>>
    /\ StartsWithBullet(convert_checkboxes(StrippedLine))
    /\ PptxAddParagraph

PptxNumberedLine ==
    /\ ex_fmt = "pptx"
    /\ AtLine
    /\ StrippedLine # <<>>
    /\ ~StartsWithBullet(convert_checkboxes(StrippedLine))
    /\ number_match(convert_checkboxes(StrippedLine))
    /\ PptxAddParagraph

PptxPlainLine ==
    /\ ex_fmt = "pptx"
    /\ AtLine
    /\ StrippedLine # <<>>
    /\ ~StartsWithBullet(convert_checkboxes(StrippedLine))
    /\ ~number_match(convert_checkboxes(StrippedLine))
    /\ PptxAddParagraph

\* After the loops: the final slide, the file name, prs.save.
PptxSave ==
    /\ ex_fmt = "pptx"
    /\ AtSectionBoundary
    /\ ex_s = Len(ex_sections)
    /\ slides' = Append(slides, FinalSlide)
    /\ filepath' = FilePath("pptx", version_key, form_data, save_path)
    /\ ex_pc' = "done"
    /\ UNCHANGED <<ex_in, ex_loop, doc, story, wb>>
    /\ UNCHANGED <<ps_vars, cb_vars, pf_vars, job_vars, app_vars>>

(***************************************************************************)
(* export_all_to_xlsx.  The workbook is the list of its sheets; a sheet is *)
(* its title, the text of its cell A1 and its table rows (from row 4).     *)
(***************************************************************************)
Sheet(title, a1, rows) == [title |-> title, a1 |-> a1, rows |-> rows]

OverviewSheet ==
    Sheet(<<"Overview">>, <<"UDL Differentiation Wizard - Generated Materials">>,
          << <<<<"Learning Objective:">>, FormValue("learning_objective")>>,
             <<<<"Grade Level:">>, FormValue("grade_level")>>,
             <<<<"Subject:">>, FormValue("subject")>>,
             <<<<"Generated:">>, DateNow>> >>)

\* Mutant of SheetKeys: the loop runs over the known versions that the
\* materials hold, not over VERSION_NAMES.
SheetKeys_OfMaterials(mats) ==
    SelectSeq(VersionKeys, LAMBDA k : k \in DOMAIN mats)

\* `for version_key, version_name in VERSION_NAMES.items()`: the keys the
\* loop visits, whatever the materials hold.
SheetKeys(mats) == VersionKeys

\* The Overview sheet.
XlsxCall ==
    /\ ex_fmt = "xlsx"
    /\ ex_pc = "idle"
    /\ wb' = <<OverviewSheet>>
    /\ ex_v' = 0
    /\ ex_sections' = <<>>
    /\ ex_s' = 0
    /\ ex_pc' = "loop"
    /\ UNCHANGED <<ex_in, ex_lines, ex_l, first_line, doc, story, slides, filepath>>
    /\ UNCHANGED <<ps_vars, cb_vars, pf_vars, job_vars, app_vars>>

\* One iteration of the loop over VERSION_NAMES: the sheet and its header;
\* then parse_sections.
XlsxSheet ==
    /\ ex_fmt = "xlsx"
    /\ ex_pc = "loop"
    /\ ex_s = Len(ex_sections)
    /\ ex_v < Len(SheetKeys(materials))
    /\ LET key == SheetKeys(materials)[ex_v + 1]
       IN  /\ wb' = Append(wb, Sheet(Take(key, 31), VERSION_NAMES[key], <<>>))
           /\ ex_sections' = parse_sections(VersionContent(materials, key))
    /\ ex_s' = 0
    /\ ex_v' = ex_v + 1
    /\ UNCHANGED <<ex_in, ex_pc, ex_lines, ex_l, first_line, doc, story, slides, filepath>>
    /\ UNCHANGED <<ps_vars, cb_vars, pf_vars, job_vars, app_vars>>

\* One iteration of the section loop: the row of the section.
XlsxRow ==
    /\ ex_fmt = "xlsx"
    /\ ex_pc = "loop"
    /\ ex_s < Len(ex_sections)
    /\ wb' = [wb EXCEPT ![Len(wb)].rows =
                 Append(@, <<NextSection[1], CleanedContent(NextSection[2])>>)]
    /\ ex_s' = ex_s + 1
    /\ UNCHANGED <<ex_in, ex_pc, ex_sections, ex_lines, ex_l, ex_v, first_line>>
    /\ UNCHANGED <<doc, story, slides, filepath>>
    /\ UNCHANGED <<ps_vars, cb_vars, pf_vars, job_vars, app_vars>>

\* After the loops: the file name, wb.save.
XlsxSave ==
    /\ ex_fmt = "xlsx"
    /\ ex_pc = "loop"
    /\ ex_s = Len(ex_sections)
    /\ ex_v = Len(SheetKeys(materials))
    /\ filepath' = FilePath("xlsx", version_key, form_data, save_path)
    /\ ex_pc' = "done"
    /\ UNCHANGED <<ex_in, ex_loop, doc, story, slides, wb>>
    /\ UNCHANGED <<ps_vars, cb_vars, pf_vars, job_vars, app_vars>>

(***************************************************************************)
(* Export calls running side by side on one form_data and one save_path.   *)
(* Of each call only the two steps that touch the file system are kept:    *)
(* the computation of `filepath` and the save to it.                       *)
(***************************************************************************)
JobIds == {1, 2}

\* No export call runs side by side with another.
NoJobs ==
    /\ jobs = <<>>
    /\ written = {}

Job(fmt, key) == [fmt |-> fmt, key |-> key, pc |-> "called", filepath |-> <<>>]

\* filepath = os.path.join(save_path, filename) in call j.
JobPath(j) ==
    /\ j \in DOMAIN jobs
    /\ jobs[j].pc = "called"
    /\ jobs' = [jobs EXCEPT ![j].filepath = FilePath(jobs[j].fmt, jobs[j].key, form_data, save_path),
                            ![j].pc = "named"]
    /\ UNCHANGED written
    /\ UNCHANGED <<ps_vars, cb_vars, pf_vars, ex_vars, app_vars>>

\* doc.save(filepath), doc.build(story), prs.save(filepath), wb.save(filepath)
\* in call j.
JobSave(j) ==
    /\ j \in DOMAIN jobs
    /\ jobs[j].pc = "named"
    /\ written' = written \cup {[path |-> jobs[j].filepath, by |-> j]}
    /\ jobs' = [jobs EXCEPT ![j].pc = "saved"]
    /\ UNCHANGED <<ps_vars, cb_vars, pf_vars, ex_vars, app_vars>>

(***************************************************************************)
(* StepGenerate and its GenerationWorker.  The worker thread runs          *)
(* GenerationWorker.run; its signals are queued to the GUI thread, which   *)
(* runs one slot per signal, in the order of emission.  form_data is the   *)
(* one dict that MainWindow, every wizard step and the worker refer to.    *)
(***************************************************************************)
\* Mutant of ResultRecord: a failed version keeps its error as content too.
ResultRecord_ErrorAsContent(key, c, err) ==
    [name |-> VERSION_NAMES[key], content |-> IF err # <<>> THEN err[1] ELSE c,
     generated_at |-> <<"isoformat">>, error |-> err]

\* The record GenerationWorker stores for a version: `content` is the text,
\* `error` an Optional[str], written <<>> for None and <<e>> for the string e.
ResultRecord(key, c, err) ==
    [name |-> VERSION_NAMES[key], content |-> c,
     generated_at |-> <<"isoformat">>, error |-> err]

\* The versions list of GenerationWorker.run.
versions == VersionKeys

NotSpecified == <<"Not specified">>

\* The f-string user_prompt of GenerationWorker.run: the texts spliced in.
user_prompt(fd, version) ==
    <<VERSION_NAMES[version], fd["learning_objective"], fd["grade_level"],
      DictGet(fd, "subject", NotSpecified), fd["student_needs"]>>

\* build_system_prompt: the version and the texts spliced in (the sample
\* forms leave the UDL, resources and interests fields empty).
build_system_prompt(fd, version) ==
    <<version, DictGet(fd, "learning_objective", NotSpecified),
      DictGet(fd, "grade_level", NotSpecified),
      DictGet(fd, "subject", NotSpecified),
      DictGet(fd, "student_needs", NotSpecified)>>

Signal(name, version, arg) == [signal |-> name, version |-> version, arg |-> arg]

\* d[k] = v
DictSet(d, k, v) == [x \in DOMAIN d \cup {k} |-> IF x = k THEN v ELSE d[x]]

\* d.update(e)
DictUpdate(d, e) == [x \in DOMAIN d \cup DOMAIN e |-> IF x \in DOMAIN e THEN e[x] ELSE d[x]]

\* No generation has been started.
GWIdle ==
    /\ generate_btn = TRUE
    /\ gw_pc = "none"
    /\ gw_i = 0
    /\ results = EmptyDict
    /\ gw_prompts = <<>>
    /\ emitted = <<>>
    /\ handled = 0
    /\ form_at_start = EmptyDict
    /\ edits = 0
    /\ replies = <<>>

\* `if not self.form_data.get(k)` of start_generation, for the three keys.
MissingData ==
    \E k \in {"learning_objective", "grade_level", "student_needs"} :
        DictGet(form_data, k, <<>>) = <<>>

\* A click on generate_btn: StepGenerate.start_generation.
StartGeneration ==
    /\ generate_btn = TRUE
    /\ IF MissingData
       THEN UNCHANGED <<materials, gw_vars>>
       ELSE /\ generate_btn' = FALSE
            /\ materials' = EmptyDict
            /\ gw_pc' = "loop"
            /\ gw_i' = 0
            /\ results' = EmptyDict
            /\ gw_prompts' = <<>>
            /\ emitted' = <<>>
            /\ handled' = 0
            /\ form_at_start' = form_data
            /\ UNCHANGED <<edits, replies>>
    /\ UNCHANGED <<form_data, ex_rest>>
    /\ UNCHANGED <<ps_vars, cb_vars, pf_vars, job_vars, chat_vars, svc_vars>>

\* The prompts of one iteration, built from self.form_data.
StartVersionPrompts(version) ==
    <<user_prompt(form_data, version), build_system_prompt(form_data, version)>>

\* The head of one iteration of the for loop: progress(version, 0), the two
\* prompts, and the call of self.ollama.generate.
GWStartVersion ==
    /\ gw_pc = "loop"
    /\ gw_i < Len(versions)
    /\ LET version == versions[gw_i + 1]
       IN  /\ emitted' = Append(emitted, Signal("progress", version, 0))
           /\ gw_prompts' = Append(gw_prompts, StartVersionPrompts(version))
    /\ gw_pc' = "generating"
    /\ UNCHANGED <<generate_btn, gw_i, results, handled, form_at_start, edits, replies>>
    /\ UNCHANGED <<ps_vars, cb_vars, pf_vars, ex_vars, job_vars, chat_vars, svc_vars>>

\* Mutant of FailureSignals: a failed version is reported as finished too.
FailureSignals_WithProgress(version, rec) ==
    <<Signal("version_complete", version, rec), Signal("progress", version, 100)>>

\* The signals of the except arm.
FailureSignals(version, rec) == <<Signal("version_complete", version, rec)>>

\* self.ollama.generate returns: the record, version_complete, progress 100.
GWGenerated ==
    /\ gw_pc = "generating"
    /\ replies[gw_i + 1].ok
    /\ LET version == versions[gw_i + 1]
           rec == ResultRecord(version, replies[gw_i + 1].text, <<>>)
       IN  /\ results' = DictSet(results, version, rec)
           /\ emitted' = emitted \o <<Signal("version_complete", version, rec),
                                      Signal("progress", version, 100)>>
    /\ gw_i' = gw_i + 1
    /\ gw_pc' = "loop"
    /\ UNCHANGED <<generate_btn, gw_prompts, handled, form_at_start, edits, replies>>
    /\ UNCHANGED <<ps_vars, cb_vars, pf_vars, ex_vars, job_vars, chat_vars, svc_vars>>

\* self.ollama.generate raises: the except arm.
GWFailed ==
    /\ gw_pc = "generating"
    /\ ~replies[gw_i + 1].ok
    /\ LET version == versions[gw_i + 1]
           rec == ResultRecord(version, <<>>, <<replies[gw_i + 1].text>>)
       IN  /\ results' = DictSet(results, version, rec)
           /\ emitted' = emitted \o FailureSignals(version, rec)
    /\ gw_i' = gw_i + 1
    /\ gw_pc' = "loop"
    /\ UNCHANGED <<generate_btn, gw_prompts, handled, form_at_start, edits, replies>>
    /\ UNCHANGED <<ps_vars, cb_vars, pf_vars, ex_vars, job_vars, chat_vars, svc_vars>>

\* After the loop: self.finished.emit(results).
GWFinished ==
    /\ gw_pc = "loop"
    /\ gw_i = Len(versions)
    /\ emitted' = Append(emitted, Signal("finished", <<>>, results))
    /\ gw_pc' = "done"
    /\ UNCHANGED <<generate_btn, gw_i, results, gw_prompts, handled, form_at_start, edits, replies>>
    /\ UNCHANGED <<ps_vars, cb_vars, pf_vars, ex_vars, job_vars, chat_vars, svc_vars>>

\* The signal whose slot the GUI thread runs next.
PendingSignal == emitted[handled + 1]
HasPending(name) == handled < Len(emitted) /\ PendingSignal.signal = name

\* StepGenerate.on_generation_progress: it only sets a label.
OnGenerationProgress ==
    /\ HasPending("progress")
    /\ handled' = handled + 1
    /\ UNCHANGED <<generate_btn, gw_pc, gw_i, results, gw_prompts, emitted, form_at_start, edits, replies>>
    /\ UNCHANGED <<ps_vars, cb_vars, pf_vars, ex_vars, job_vars, chat_vars, svc_vars>>

\* StepGenerate.on_version_complete
OnVersionComplete ==
    /\ HasPending("version_complete")
    /\ materials' = DictSet(materials, PendingSignal.version, PendingSignal.arg)
    /\ handled' = handled + 1
    /\ UNCHANGED <<generate_btn, gw_pc, gw_i, results, gw_prompts, emitted, form_at_start, edits, replies>>
    /\ UNCHANGED <<form_data, ex_rest>>
    /\ UNCHANGED <<ps_vars, cb_vars, pf_vars, job_vars, chat_vars, svc_vars>>

\* StepGenerate.on_generation_finished
OnGenerationFinished ==
    /\ HasPending("finished")
    /\ materials' = PendingSignal.arg
    /\ generate_btn' = TRUE
    /\ handled' = handled + 1
    /\ UNCHANGED <<gw_pc, gw_i, results, gw_prompts, emitted, form_at_start, edits, replies>>
    /\ UNCHANGED <<form_data, ex_rest>>
    /\ UNCHANGED <<ps_vars, cb_vars, pf_vars, job_vars, chat_vars, svc_vars>>

\* StepObjective.update_form after the user changed a field of step 1.
UpdateForm(objective, grade, subject) ==
    /\ edits < MaxEdits
    /\ form_data' = DictSet(DictSet(DictSet(form_data, "learning_objective", objective),
                                    "grade_level", grade),
                            "subject", subject)
    /\ edits' = edits + 1
    /\ UNCHANGED <<generate_btn, gw_pc, gw_i, results, gw_prompts, emitted, handled, form_at_start, replies>>
    /\ UNCHANGED <<materials, ex_rest>>
    /\ UNCHANGED <<ps_vars, cb_vars, pf_vars, job_vars, chat_vars, svc_vars>>

\* MainWindow.load_assignment_from_dashboard: self.form_data.update(form_data)
LoadAssignmentFromDashboard(saved) ==
    /\ edits < MaxEdits
    /\ form_data' = DictUpdate(form_data, saved)
    /\ edits' = edits + 1
    /\ UNCHANGED <<generate_btn, gw_pc, gw_i, results, gw_prompts, emitted, handled, form_at_start, replies>>
    /\ UNCHANGED <<materials, ex_rest>>
    /\ UNCHANGED <<ps_vars, cb_vars, pf_vars, job_vars, chat_vars, svc_vars>>

(***************************************************************************)
(* StepConversation and its ChatWorkers.  A worker is "running" until it   *)
(* emits finished or error; the signal waits until the GUI thread runs its *)
(* slot, and then the worker is done.                                      *)
(***************************************************************************)
ChatIdle ==
    /\ start_btn = TRUE
    /\ send_btn = FALSE
    /\ message_input = <<>>
    /\ messages = <<>>
    /\ chat_workers = <<>>

\* ChatWorker(...).start()
StartChatWorker(ws) == Append(ws, "running")

\* A click on start_btn: StepConversation.start_conversation.
StartConversation ==
    /\ start_btn = TRUE
    /\ Len(chat_workers) < MaxChatWorkers
    /\ messages' = <<"user">>
    /\ start_btn' = FALSE
    /\ chat_workers' = StartChatWorker(chat_workers)
    /\ UNCHANGED <<send_btn, message_input>>
    /\ UNCHANGED <<ps_vars, cb_vars, pf_vars, ex_vars, job_vars, gw_vars, svc_vars>>

\* The user types into message_input.
TypeMessage(text) ==
    /\ message_input = <<>>
    /\ message_input' = text
    /\ UNCHANGED <<start_btn, send_btn, messages, chat_workers>>
    /\ UNCHANGED <<ps_vars, cb_vars, pf_vars, ex_vars, job_vars, gw_vars, svc_vars>>

\* StepConversation.send_message
send_message ==
    /\ Len(chat_workers) < MaxChatWorkers
    /\ Len(messages) < MaxMessages
    /\ IF Strip(message_input) = <<>>
       THEN UNCHANGED chat_vars
       ELSE /\ message_input' = <<>>
            /\ send_btn' = FALSE
            /\ messages' = Append(messages, "user")
            /\ chat_workers' = StartChatWorker(chat_workers)
            /\ UNCHANGED start_btn
    /\ UNCHANGED <<ps_vars, cb_vars, pf_vars, ex_vars, job_vars, gw_vars, svc_vars>>

\* A click on send_btn.
ClickSend ==
    /\ send_btn = TRUE
    /\ send_message

\* The Return key in message_input: returnPressed is connected to
\* send_message whatever the state of send_btn.
PressReturn ==
    /\ message_input # <<>>
    /\ send_message

\* ChatWorker.run of worker w: ollama.chat returns, finished is emitted.
ChatWorkerFinished(w) ==
    /\ w \in DOMAIN chat_workers
    /\ chat_workers[w] = "running"
    /\ chat_workers' = [chat_workers EXCEPT ![w] = "finished"]
    /\ UNCHANGED <<start_btn, send_btn, message_input, messages>>
    /\ UNCHANGED <<ps_vars, cb_vars, pf_vars, ex_vars, job_vars, gw_vars, svc_vars>>

\* ChatWorker.run of worker w: ollama.chat raises, error is emitted.
ChatWorkerError(w) ==
    /\ w \in DOMAIN chat_workers
    /\ chat_workers[w] = "running"
    /\ chat_workers' = [chat_workers EXCEPT ![w] = "error"]
    /\ UNCHANGED <<start_btn, send_btn, message_input, messages>>
    /\ UNCHANGED <<ps_vars, cb_vars, pf_vars, ex_vars, job_vars, gw_vars, svc_vars>>

\* ws without its element w.
WithoutWorker(ws, w) == SubSeq(ws, 1, w - 1) \o SubSeq(ws, w + 1, Len(ws))

\* StepConversation.on_response_complete for the signal of worker w.
OnResponseComplete(w) ==
    /\ w \in DOMAIN chat_workers
    /\ chat_workers[w] = "finished"
    /\ messages' = Append(messages, "assistant")
    /\ send_btn' = TRUE
    /\ start_btn' = TRUE
    /\ chat_workers' = WithoutWorker(chat_workers, w)
    /\ UNCHANGED message_input
    /\ UNCHANGED <<ps_vars, cb_vars, pf_vars, ex_vars, job_vars, gw_vars, svc_vars>>

\* StepConversation.on_chat_error for the signal of worker w.
OnChatError(w) ==
    /\ w \in DOMAIN chat_workers
    /\ chat_workers[w] = "error"
    /\ send_btn' = TRUE
    /\ start_btn' = TRUE
    /\ chat_workers' = WithoutWorker(chat_workers, w)
    /\ UNCHANGED <<message_input, messages>>
    /\ UNCHANGED <<ps_vars, cb_vars, pf_vars, ex_vars, job_vars, gw_vars, svc_vars>>

(***************************************************************************)
(* AuthService (src/auth_service.py).  users is the 'users' mapping of     *)
(* users.json and session the content of session.json; reading and        *)
(* writing the two files succeeds.  SHA-256 is modelled as an injective    *)
(* function: the digest of x is x behind a tag.                            *)
(***************************************************************************)
Sha256(x) == <<"sha256">> \o x

LowerChar(c) ==
    CASE c = "A" -> "a"
      [] c = "X" -> "x"
      [] c = "Y" -> "y"
      [] OTHER -> c

\* str.lower()
Lower(t) == [i \in 1..Len(t) |-> LowerChar(t[i])]

\* AuthService._hash_password with a given salt
hash_password(password, salt) == Sha256(salt \o password)

\* AuthService._hash_answer
hash_answer(answer) == Sha256(Lower(Strip(answer)))

\* The key of the first user whose name equals username case-insensitively,
\* <<>> when there is none (register keeps such keys unique).
FindUser(us, username) ==
    IF \E u \in DOMAIN us : Lower(u) = Lower(username)
    THEN <<CHOOSE u \in DOMAIN us : Lower(u) = Lower(username)>>
    ELSE <<>>

AuthCall(op, args, ok, message) == [op |-> op, args |-> args, ok |-> ok, message |-> message]

AuthIdle ==
    /\ users = EmptyDict
    /\ session = <<>>
    /\ auth_call = AuthCall("none", <<>>, TRUE, <<>>)

\* The message of the first failed check of register, <<>> when all pass.
RegisterProblem(username, password, security_questions) ==
    IF Strip(username) = <<>> THEN <<"Username is required.">>
    ELSE IF Len(Strip(username)) < 3 THEN <<"Username must be at least 3 characters.">>
    ELSE IF password = <<>> THEN <<"Password is required.">>
    ELSE IF Len(password) < 6 THEN <<"Password must be at least 6 characters.">>
    ELSE IF Len(security_questions) < 3 THEN <<"Three security questions are required.">>
    ELSE IF \E k \in 1..Len(security_questions) : Strip(security_questions[k].answer) = <<>>
    THEN <<"All security questions must be answered.">>
    ELSE IF FindUser(users, Strip(username)) # <<>> THEN <<"Username already exists.">>
    ELSE <<>>

\* AuthService.register; salt is the value of secrets.token_hex(16).
Register(username, password, security_questions, salt) ==
    LET problem == RegisterProblem(username, password, security_questions)
        args == <<username, password, security_questions>>
    IN  /\ IF problem # <<>>
           THEN /\ auth_call' = AuthCall("register", args, FALSE, problem)
                /\ UNCHANGED users
           ELSE /\ users' = DictSet(users, Strip(username),
                       [password_hash |-> hash_password(password, salt),
                        salt |-> salt,
                        security_questions |->
                            [k \in 1..Len(security_questions) |->
                                [question |-> security_questions[k].question,
                                 answer_hash |-> hash_answer(security_questions[k].answer)]],
                        created_at |-> <<"isoformat">>,
                        last_login |-> <<>>])
                /\ auth_call' = AuthCall("register", args, TRUE, <<"Registration successful!">>)
        /\ UNCHANGED session
        /\ UNCHANGED <<ps_vars, cb_vars, pf_vars, ex_vars, job_vars, gw_vars, chat_vars, ol_vars>>

\* The password check of login for the stored user u.
PasswordMatches(us, u, password) ==
    hash_password(password, us[u].salt) = us[u].password_hash

\* The message of the first failed check of login, <<>> when the user is
\* authenticated.
LoginProblem(us, username, password) ==
    LET found == FindUser(us, Strip(username))
    IN  IF Strip(username) = <<>> \/ password = <<>>
        THEN <<"Username and password are required.">>
        ELSE IF found = <<>> THEN <<"Invalid username or password.">>
        ELSE IF ~PasswordMatches(us, found[1], password)
        THEN <<"Invalid username or password.">>
        ELSE <<>>

\* AuthService.login
Login(username, password, stay_logged_in) ==
    LET problem == LoginProblem(users, username, password)
        actual_username == FindUser(users, Strip(username))[1]
        args == <<username, password, stay_logged_in>>
    IN  /\ IF problem # <<>>
           THEN /\ auth_call' = AuthCall("login", args, FALSE, problem)
                /\ UNCHANGED <<users, session>>
           ELSE /\ users' = [users EXCEPT ![actual_username].last_login = <<"isoformat">>]
                /\ session' = <<[username |-> actual_username, logged_in_at |-> <<"isoformat">>,
                                 stay_logged_in |-> stay_logged_in]>>
                /\ auth_call' = AuthCall("login", args, TRUE, <<"Login successful!">>)
        /\ UNCHANGED <<ps_vars, cb_vars, pf_vars, ex_vars, job_vars, gw_vars, chat_vars, ol_vars>>

\* AuthService.logout
Logout ==
    /\ session' = <<>>
    /\ auth_call' = AuthCall("logout", <<>>, TRUE, <<>>)
    /\ UNCHANGED users
    /\ UNCHANGED <<ps_vars, cb_vars, pf_vars, ex_vars, job_vars, gw_vars, chat_vars, ol_vars>>

\* Mutant of get_current_user: the stay_logged_in flag is not looked at.
get_current_user_AnySession(sess) ==
    IF sess # <<>> THEN <<sess[1].username>> ELSE <<>>

\* AuthService.get_current_user on the session file: an Optional[str],
\* <<>> for None.
get_current_user(sess) ==
    IF sess # <<>> /\ sess[1].stay_logged_in THEN <<sess[1].username>> ELSE <<>>

\* A call of AuthService.get_current_user.
GetCurrentUser ==
    /\ auth_call' = AuthCall("get_current_user", <<>>, TRUE, get_current_user(session))
    /\ UNCHANGED <<users, session>>
    /\ UNCHANGED <<ps_vars, cb_vars, pf_vars, ex_vars, job_vars, gw_vars, chat_vars, ol_vars>>

\* Mutant of AnswersMatch: only the first answer is compared.
AnswersMatch_FirstOnly(stored_questions, answers) ==
    hash_answer(answers[1]) = stored_questions[1].answer_hash

\* The for loop of verify_security_answers over lists of equal length.
AnswersMatch(stored_questions, answers) ==
    \A i \in 1..Len(stored_questions) :
        hash_answer(answers[i]) = stored_questions[i].answer_hash

\* The message of the first failed check of verify_security_answers, <<>>
\* when the answers are verified.  The user name is not stripped here.
VerifyProblem(us, username, answers) ==
    LET found == FindUser(us, username)
    IN  IF found = <<>> THEN <<"User not found.">>
        ELSE IF Len(answers) # Len(us[found[1]].security_questions)
        THEN <<"Incorrect number of answers.">>
        ELSE IF ~AnswersMatch(us[found[1]].security_questions, answers)
        THEN <<"One or more answers are incorrect.">>
        ELSE <<>>

\* AuthService.verify_security_answers
VerifySecurityAnswers(username, answers) ==
    LET problem == VerifyProblem(users, username, answers)
    IN  /\ auth_call' = AuthCall("verify_security_answers", <<username, answers>>,
                                 problem = <<>>,
                                 IF problem = <<>> THEN <<"Security answers verified.">> ELSE problem)
        /\ UNCHANGED <<users, session>>
        /\ UNCHANGED <<ps_vars, cb_vars, pf_vars, ex_vars, job_vars, gw_vars, chat_vars, ol_vars>>

\* The message of the first failed check of reset_password, <<>> when the
\* password is going to be changed.
ResetProblem(us, username, new_password, answers) ==
    IF VerifyProblem(us, username, answers) # <<>> THEN VerifyProblem(us, username, answers)
    ELSE IF new_password = <<>> THEN <<"New password is required.">>
    ELSE IF Len(new_password) < 6 THEN <<"Password must be at least 6 characters.">>
    ELSE <<>>

\* AuthService.reset_password; salt is the value of secrets.token_hex(16).
ResetPassword(username, new_password, answers, salt) ==
    LET problem == ResetProblem(users, username, new_password, answers)
        args == <<username, new_password, answers>>
    IN  /\ IF problem # <<>>
           THEN /\ auth_call' = AuthCall("reset_password", args, FALSE, problem)
                /\ UNCHANGED users
           ELSE /\ users' = [users EXCEPT
                                ![FindUser(users, username)[1]].password_hash =
                                    hash_password(new_password, salt),
                                ![FindUser(users, username)[1]].salt = salt]
                /\ auth_call' = AuthCall("reset_password", args, TRUE, <<"Password reset successful!">>)
        /\ UNCHANGED session
        /\ UNCHANGED <<ps_vars, cb_vars, pf_vars, ex_vars, job_vars, gw_vars, chat_vars, ol_vars>>

(***************************************************************************)
(* OllamaService.generate (src/ollama_service.py).  A line of the          *)
(* streamed answer is empty, is not JSON ("malformed"), is a JSON value    *)
(* other than an object ("value", such as null or [1]), or is a JSON       *)
(* object; of an object the model keeps its 'response' text (<<>> when the *)
(* key is missing or the text is empty) and whether 'done' is true.        *)
(***************************************************************************)
StreamLine(kind, response, done) == [kind |-> kind, response |-> response, done |-> done]

\* requests.post answered; with a status other than 200 the exception
\* raised in the try block comes out of the last except arm.
OllamaGenerate(status, lines) ==
    /\ ol_pc = "idle"
    /\ ol_status' = status
    /\ ol_lines' = lines
    /\ ol_i' = 0
    /\ full_response' = <<>>
    /\ progress_calls' = <<>>
    /\ IF status # 200
       THEN /\ ol_pc' = "raised"
            /\ ol_result' = <<"Generation failed: Ollama API error: HTTP">>
       ELSE /\ ol_pc' = "loop"
            /\ ol_result' = <<>>
    /\ UNCHANGED <<ps_vars, cb_vars, pf_vars, ex_vars, job_vars, gw_vars, chat_vars, auth_vars>>

\* One pass of the for loop over a line that is empty (`if line` fails) or
\* that json.loads rejects (JSONDecodeError, continue).
OllamaSkippedLine ==
    /\ ol_pc = "loop"
    /\ ol_i < Len(ol_lines)
    /\ ol_lines[ol_i + 1].kind \in {"empty", "malformed"}
    /\ ol_i' = ol_i + 1
    /\ UNCHANGED <<ol_status, ol_lines, full_response, progress_calls, ol_pc, ol_result>>
    /\ UNCHANGED <<ps_vars, cb_vars, pf_vars, ex_vars, job_vars, gw_vars, chat_vars, auth_vars>>

\* Mutant of ProgressAfter: on_progress is called for empty chunks too.
ProgressAfter_EveryChunk(calls, chunk) == Append(calls, chunk)

\* `if on_progress and chunk: on_progress(chunk)`
ProgressAfter(calls, chunk) == IF chunk # <<>> THEN Append(calls, chunk) ELSE calls

\* One pass of the for loop over a line that holds a JSON object.
OllamaObjectLine ==
    /\ ol_pc = "loop"
    /\ ol_i < Len(ol_lines)
    /\ ol_lines[ol_i + 1].kind = "object"
    /\ LET chunk == ol_lines[ol_i + 1].response
       IN  /\ full_response' = full_response \o chunk
           /\ progress_calls' = ProgressAfter(progress_calls, chunk)
    /\ ol_i' = ol_i + 1
    /\ ol_pc' = IF ol_lines[ol_i + 1].done THEN "after" ELSE "loop"
    /\ UNCHANGED <<ol_status, ol_lines, ol_result>>
    /\ UNCHANGED <<ps_vars, cb_vars, pf_vars, ex_vars, job_vars, gw_vars, chat_vars, auth_vars>>

\* One pass of the for loop over a line that holds a JSON value that is not
\* an object: data.get raises AttributeError, which is not a
\* JSONDecodeError and leaves generate through the last except arm.
OllamaValueLine ==
    /\ ol_pc = "loop"
    /\ ol_i < Len(ol_lines)
    /\ ol_lines[ol_i + 1].kind = "value"
    /\ ol_i' = ol_i + 1
    /\ ol_pc' = "raised"
    /\ ol_result' = <<"Generation failed: object has no attribute 'get'">>
    /\ UNCHANGED <<ol_status, ol_lines, full_response, progress_calls>>
    /\ UNCHANGED <<ps_vars, cb_vars, pf_vars, ex_vars, job_vars, gw_vars, chat_vars, auth_vars>>

\* `return full_response.strip()`, after the break or at the end of the
\* stream.
OllamaReturn ==
    /\ \/ ol_pc = "after"
       \/ ol_pc = "loop" /\ ol_i = Len(ol_lines)
    /\ ol_pc' = "returned"
    /\ ol_result' = Strip(full_response)
    /\ UNCHANGED <<ol_status, ol_lines, ol_i, full_response, progress_calls>>
    /\ UNCHANGED <<ps_vars, cb_vars, pf_vars, ex_vars, job_vars, gw_vars, chat_vars, auth_vars>>

OllamaIdle ==
    /\ ol_status = 0
    /\ ol_lines = <<>>
    /\ ol_i = 0
    /\ full_response = <<>>
    /\ progress_calls = <<>>
    /\ ol_pc = "idle"
    /\ ol_result = <<>>

\* Neither service has been called.
SvcIdle == AuthIdle /\ OllamaIdle

\* Nothing outside the exporters and the export calls is running.
AppIdle == GWIdle /\ ChatIdle /\ SvcIdle

(***************************************************************************)
(* Specifications: one per function, its argument drawn from the bounded   *)
(* strings over the characters that matter to it.                          *)
(***************************************************************************)
InitSections ==
    /\ \E c \in Strings(SectionAlphabet, MaxContentLen) : PSBefore(c)
    /\ CBBefore(<<>>)
    /\ PFBefore(<<>>)
    /\ ExportIdle
    /\ NoJobs
    /\ AppIdle

NextSections == PSCall \/ PSHeadingLine \/ PSBodyLine \/ PSReturn

SpecSections == InitSections /\ [][NextSections]_vars

\* Documents of whole lines: headings of both kinds, with different
\* titles, and lines that are not headings, the empty and the blank line
\* among them.
LineTexts ==
    { <<HASH, "a">>, <<STAR, STAR, "b", STAR, STAR>>, <<HASH, "c", SP>>,
      <<>>, <<"d">>, <<SP>> }
Documents == {JoinLines(ls) : ls \in UNION {[1..n -> LineTexts] : n \in 1..MaxDocLines}}

InitHeadings ==
    /\ \E c \in Documents : PSBefore(c)
    /\ CBBefore(<<>>)
    /\ PFBefore(<<>>)
    /\ ExportIdle
    /\ NoJobs
    /\ AppIdle

NextHeadings == PSCall \/ PSHeadingLine \/ PSBodyLine \/ PSReturn

SpecHeadings == InitHeadings /\ [][NextHeadings]_vars

InitCheckboxes ==
    /\ \E s \in Strings(CheckboxAlphabet, MaxTextLen) : CBBefore(s)
    /\ PSBefore(<<>>)
    /\ PFBefore(<<>>)
    /\ ExportIdle
    /\ NoJobs
    /\ AppIdle

NextCheckboxes == CBChecked \/ CBUnchecked

SpecCheckboxes == InitCheckboxes /\ [][NextCheckboxes]_vars

InitInline ==
    /\ \E s \in Strings(InlineAlphabet, MaxLineLen) \cup Strings(CheckboxAlphabet, MaxTextLen) :
          PFBefore(s)
    /\ PSBefore(<<>>)
    /\ CBBefore(<<>>)
    /\ ExportIdle
    /\ NoJobs
    /\ AppIdle

NextInline == PFCall \/ PFMatch \/ PFReturn

SpecInline == InitInline /\ [][NextInline]_vars

(***************************************************************************)
(* Specifications of the exporters: one call, its content drawn from the   *)
(* bounded strings over the characters that matter to the lines it reads.  *)
(***************************************************************************)
LineAlphabet == {DASH, STAR, SP, "1", DOT, NL}
BoxAlphabet == {"[", "]", "x", SP, "1", DOT, DASH}
TagAlphabet == {STAR, "a"}
DeckAlphabet == {HASH, NL, "1", DOT}
ListAlphabet == {HASH, NL, DASH, SP}

FormSample == [learning_objective |-> <<"o">>, grade_level |-> <<"5">>]
SaveDir == <<"d">>

\* The materials in which the one version `key` has the content c.
OneVersion(key, c) == key :> [content |-> c]

\* The materials that hold no content for `key`.
Contentless(key) == {EmptyDict, key :> EmptyDict}

InitParagraphs ==
    /\ \E fmt \in {"docx", "pptx"} :
       \E c \in Strings(LineAlphabet, MaxBodyLen) \cup Strings(BoxAlphabet, MaxBodyLen) :
          ExportBefore(fmt, OneVersion(VersionKeys[1], c), FormSample, VersionKeys[1], SaveDir)
    /\ PSBefore(<<>>)
    /\ CBBefore(<<>>)
    /\ PFBefore(<<>>)
    /\ NoJobs
    /\ AppIdle

NextParagraphs ==
    \/ DocxCall \/ DocxSection \/ DocxBlankLine \/ DocxBulletLine
    \/ DocxNumberedLine \/ DocxPlainLine \/ DocxSave
    \/ PptxCall \/ PptxSection \/ PptxBlankLine \/ PptxBulletLine
    \/ PptxNumberedLine \/ PptxPlainLine \/ PptxSave

SpecParagraphs == InitParagraphs /\ [][NextParagraphs]_vars

InitPdf ==
    /\ \E c \in Strings(LineAlphabet, MaxBodyLen) \cup Strings(TagAlphabet, MaxTagLen) :
          ExportBefore("pdf", OneVersion(VersionKeys[1], c), FormSample, VersionKeys[1], SaveDir)
    /\ PSBefore(<<>>)
    /\ CBBefore(<<>>)
    /\ PFBefore(<<>>)
    /\ NoJobs
    /\ AppIdle

NextPdf ==
    \/ PdfCall \/ PdfSection \/ PdfBlankLine \/ PdfBulletLine
    \/ PdfNumberedLine \/ PdfPlainLine \/ PdfBuild

SpecPdf == InitPdf /\ [][NextPdf]_vars

InitSlides ==
    /\ \E mats \in {OneVersion(VersionKeys[1], c) :
                        c \in Strings(DeckAlphabet, MaxDeckLen)
                              \cup Strings(ListAlphabet, MaxDeckLen)}
                   \cup Contentless(VersionKeys[1]) :
          ExportBefore("pptx", mats, FormSample, VersionKeys[1], SaveDir)
    /\ PSBefore(<<>>)
    /\ CBBefore(<<>>)
    /\ PFBefore(<<>>)
    /\ NoJobs
    /\ AppIdle

NextSlides ==
    \/ PptxCall \/ PptxSection \/ PptxBlankLine \/ PptxBulletLine
    \/ PptxNumberedLine \/ PptxPlainLine \/ PptxSave

SpecSlides == InitSlides /\ [][NextSlides]_vars

CellAlphabet == {STAR, "a", NL}
ExtraKey == <<"e", "x", "t", "r", "a">>
SomeKeys == {VersionKeys[1], VersionKeys[3], ExtraKey}

\* The materials that hold the content c under each key of K.
SameContent(K, c) == [k \in K |-> [content |-> c]]

InitWorkbook ==
    /\ \E K \in SUBSET SomeKeys :
       \E mats \in {SameContent(K, c) : c \in Strings(CellAlphabet, MaxCellLen)}
                    \cup {[k \in K |-> EmptyDict]} :
          ExportBefore("xlsx", mats, FormSample, <<>>, SaveDir)
    /\ PSBefore(<<>>)
    /\ CBBefore(<<>>)
    /\ PFBefore(<<>>)
    /\ NoJobs
    /\ AppIdle

NextWorkbook == XlsxCall \/ XlsxSheet \/ XlsxRow \/ XlsxSave

SpecWorkbook == InitWorkbook /\ [][NextWorkbook]_vars

PathAlphabet == {":", "/", "b"}

\* n times the letter a.
Pad(n) == [i \in 1..n |-> "a"]

\* Learning objectives of up to MaxPad + MaxTailLen characters: letters, then
\* a tail with characters that a file name cannot hold.
Objectives == {Pad(n) \o t : n \in 0..MaxPad, t \in Strings(PathAlphabet, MaxTailLen)}

FormDatas ==
    {[learning_objective |-> o, grade_level |-> <<"5">>] : o \in Objectives}
        \cup {[grade_level |-> <<"5">>]}

\* A content with a blank, a bullet, a numbered and a plain line.
SampleContent == <<"a", NL, NL, DASH, SP, "a", NL, "1", DOT, "a">>

InitFilename ==
    /\ \E fd \in FormDatas :
          \/ \E fmt \in {"docx", "pdf", "pptx"}, key \in {VersionKeys[2], ExtraKey} :
                ExportBefore(fmt, OneVersion(key, SampleContent), fd, key, SaveDir)
          \/ ExportBefore("xlsx", OneVersion(VersionKeys[2], SampleContent), fd, <<>>, SaveDir)
    /\ PSBefore(<<>>)
    /\ CBBefore(<<>>)
    /\ PFBefore(<<>>)
    /\ NoJobs
    /\ AppIdle

NextFilename ==
    \/ DocxCall \/ DocxSection \/ DocxBlankLine \/ DocxBulletLine
    \/ DocxNumberedLine \/ DocxPlainLine \/ DocxSave
    \/ PdfCall \/ PdfSection \/ PdfBlankLine \/ PdfBulletLine
    \/ PdfNumberedLine \/ PdfPlainLine \/ PdfBuild
    \/ PptxCall \/ PptxSection \/ PptxBlankLine \/ PptxBulletLine
    \/ PptxNumberedLine \/ PptxPlainLine \/ PptxSave
    \/ XlsxCall \/ XlsxSheet \/ XlsxRow \/ XlsxSave

SpecFilename == InitFilename /\ [][NextFilename]_vars

AllVersionsKey == <<"A", "l", "l", "V", "e", "r", "s", "i", "o", "n", "s">>
JobKeys == {VersionKeys[1], VersionKeys[2], ExtraKey, AllVersionsKey}

\* The calls: the three per-version exporters with a version key, and the
\* workbook exporter, which takes none.
JobCalls ==
    {Job(fmt, key) : fmt \in {"docx", "pdf", "pptx"}, key \in JobKeys}
        \cup {Job("xlsx", <<>>)}

JobFormDatas ==
    {[learning_objective |-> o, grade_level |-> <<"5">>] :
         o \in Strings(PathAlphabet, MaxTailLen)}
        \cup {[grade_level |-> <<"5">>]}

InitJobs ==
    /\ \E fd \in JobFormDatas :
          ExportBefore("none", EmptyDict, fd, <<>>, SaveDir)
    /\ jobs \in [JobIds -> JobCalls]
    /\ written = {}
    /\ AppIdle
    /\ PSBefore(<<>>)
    /\ CBBefore(<<>>)
    /\ PFBefore(<<>>)

NextJobs == \E j \in JobIds : JobPath(j) \/ JobSave(j)

SpecJobs == InitJobs /\ [][NextJobs]_vars

ErrorTexts == {<<"Cannot connect to Ollama">>, <<"Request timed out">>}
EntryAlphabet == {"a", NL, HASH}

\* The records of one version: a generated text (the empty one among them)
\* with no error, or no text with an error.
ResultRecords(key) ==
    {ResultRecord(key, c, <<>>) :
         c \in Strings(EntryAlphabet, MaxEntryLen) \cup {SampleContent}}
        \cup {ResultRecord(key, <<>>, <<e>>) : e \in ErrorTexts}

InitEntries ==
    /\ \E fmt \in {"docx", "pdf", "pptx"}, key \in {VersionKeys[1], VersionKeys[2]} :
       \E rec \in ResultRecords(key) :
          ExportBefore(fmt, key :> rec, FormSample, key, SaveDir)
    /\ PSBefore(<<>>)
    /\ CBBefore(<<>>)
    /\ PFBefore(<<>>)
    /\ NoJobs
    /\ AppIdle

NextEntries ==
    \/ DocxCall \/ DocxSection \/ DocxBlankLine \/ DocxBulletLine
    \/ DocxNumberedLine \/ DocxPlainLine \/ DocxSave
    \/ PdfCall \/ PdfSection \/ PdfBlankLine \/ PdfBulletLine
    \/ PdfNumberedLine \/ PdfPlainLine \/ PdfBuild
    \/ PptxCall \/ PptxSection \/ PptxBlankLine \/ PptxBulletLine
    \/ PptxNumberedLine \/ PptxPlainLine \/ PptxSave

SpecEntries == InitEntries /\ [][NextEntries]_vars

\* A filled-in form, as get_default_form_data and steps 1 and 2 leave it.
WizardForm(objective, needs) ==
    [learning_objective |-> objective, grade_level |-> <<"Grade 5">>,
     subject |-> <<>>, student_needs |-> needs]

WizardForms ==
    {WizardForm(<<"objective A">>, <<"needs">>), WizardForm(<<"objective A">>, <<>>)}

ObjectiveTexts == {<<"objective A">>, <<"objective B">>}

\* The form_data of an assignment saved on the dashboard.
SavedForms == {WizardForm(<<"objective C">>, <<"needs C">>)}

Reply(ok, text) == [ok |-> ok, text |-> text]
GeneratedText == <<"#", " ", "T", NL, "a">>

\* What the server does for the five versions: it answers each of them; or
\* it fails on one, or answers one with the empty text; or it fails on all.
ReplyScripts ==
    {[i \in 1..5 |-> Reply(TRUE, GeneratedText)]}
        \cup {[i \in 1..5 |-> IF i = k THEN Reply(FALSE, e) ELSE Reply(TRUE, GeneratedText)] :
                 k \in 1..5, e \in ErrorTexts}
        \cup {[i \in 1..5 |-> IF i = k THEN Reply(TRUE, <<>>) ELSE Reply(TRUE, GeneratedText)] :
                 k \in 1..5}
        \cup {[i \in 1..5 |-> Reply(FALSE, <<"Cannot connect to Ollama">>)]}

InitGeneration ==
    /\ \E fd \in WizardForms : ExportBefore("none", EmptyDict, fd, <<>>, <<>>)
    /\ generate_btn = TRUE
    /\ gw_pc = "none"
    /\ gw_i = 0
    /\ results = EmptyDict
    /\ gw_prompts = <<>>
    /\ emitted = <<>>
    /\ handled = 0
    /\ form_at_start = EmptyDict
    /\ edits = 0
    /\ replies \in ReplyScripts
    /\ ChatIdle
    /\ SvcIdle
    /\ PSBefore(<<>>)
    /\ CBBefore(<<>>)
    /\ PFBefore(<<>>)
    /\ NoJobs

NextGeneration ==
    \/ StartGeneration
    \/ GWStartVersion
    \/ GWGenerated
    \/ GWFailed
    \/ GWFinished
    \/ OnGenerationProgress
    \/ OnVersionComplete
    \/ OnGenerationFinished
    \/ \E o \in ObjectiveTexts : UpdateForm(o, <<"Grade 5">>, <<"Math">>)
    \/ \E saved \in SavedForms : LoadAssignmentFromDashboard(saved)

SpecGeneration == InitGeneration /\ [][NextGeneration]_vars

MessageTexts == {<<SP>>, <<"h", "i">>}

InitWorkers ==
    /\ ExportBefore("none", EmptyDict, WizardForm(<<"objective A">>, <<"needs">>), <<>>, <<>>)
    /\ generate_btn = TRUE
    /\ gw_pc = "none"
    /\ gw_i = 0
    /\ results = EmptyDict
    /\ gw_prompts = <<>>
    /\ emitted = <<>>
    /\ handled = 0
    /\ form_at_start = EmptyDict
    /\ edits = 0
    /\ replies \in {[i \in 1..5 |-> IF i = k THEN Reply(FALSE, <<"Request timed out">>)
                                    ELSE Reply(TRUE, GeneratedText)] : k \in {2}}
    /\ ChatIdle
    /\ SvcIdle
    /\ PSBefore(<<>>)
    /\ CBBefore(<<>>)
    /\ PFBefore(<<>>)
    /\ NoJobs

NextWorkers ==
    \/ StartConversation
    \/ \E text \in MessageTexts : TypeMessage(text)
    \/ ClickSend
    \/ PressReturn
    \/ \E w \in 1..MaxChatWorkers : ChatWorkerFinished(w)
    \/ \E w \in 1..MaxChatWorkers : ChatWorkerError(w)
    \/ \E w \in 1..MaxChatWorkers : OnResponseComplete(w)
    \/ \E w \in 1..MaxChatWorkers : OnChatError(w)
    \/ StartGeneration
    \/ GWStartVersion
    \/ GWGenerated
    \/ GWFailed
    \/ GWFinished
    \/ OnGenerationProgress
    \/ OnVersionComplete
    \/ OnGenerationFinished

SpecWorkers == InitWorkers /\ [][NextWorkers]_vars

Amy == <<"a", "m", "y">>
Bob == <<"b", "o", "b">>
\* The names typed at login and recovery: registered names, and one in
\* another case with a blank behind it.
UsernameTexts == {Amy, <<"A", "m", "y", SP>>, Bob}
\* A password that is too short and two that are long enough.
PasswordTexts == {Pad(5), Pad(6), Pad(5) \o <<"b">>}
Salts == {<<"salt 1">>, <<"salt 2">>}

SecurityQuestion(q, a) == [question |-> q, answer |-> a]
ThreeQuestions ==
    << SecurityQuestion(<<"What city were you born in?">>, <<"x">>),
       SecurityQuestion(<<"What is your favorite book?">>, <<SP, "Y">>),
       SecurityQuestion(<<"What was your childhood nickname?">>, <<"a">>) >>
QuestionLists == {ThreeQuestions, SubSeq(ThreeQuestions, 1, 2)}

\* Answer lists: the answers as registered, the same in another case and
\* with blanks around them, a wrong last answer, a wrong first answer, and
\* a list that is too short.
AnswerLists ==
    { <<<<"x">>, <<SP, "Y">>, <<"a">>>>,
      <<<<"X", SP>>, <<"y">>, <<"A">>>>,
      <<<<"x">>, <<"y">>, <<"b">>>>,
      <<<<"b">>, <<"y">>, <<"a">>>>,
      <<<<"x">>, <<"y">>>> }

\* Sessions: two users register, log in with and without "stay logged
\* in", log out, and the application asks for the current user.
InitSession ==
    /\ ExportIdle
    /\ NoJobs
    /\ GWIdle
    /\ ChatIdle
    /\ AuthIdle
    /\ OllamaIdle
    /\ PSBefore(<<>>)
    /\ CBBefore(<<>>)
    /\ PFBefore(<<>>)

NextSession ==
    \/ \E username \in {Amy, Bob}, salt \in Salts :
          Register(username, Pad(6), ThreeQuestions, salt)
    \/ \E username \in UsernameTexts, password \in PasswordTexts, stay \in BOOLEAN :
          Login(username, password, stay)
    \/ Logout
    \/ GetCurrentUser

SpecSession == InitSession /\ [][NextSession]_vars

\* Password recovery: one user registers, checks the security answers,
\* resets the password and logs in.
InitRecovery ==
    /\ ExportIdle
    /\ NoJobs
    /\ GWIdle
    /\ ChatIdle
    /\ AuthIdle
    /\ OllamaIdle
    /\ PSBefore(<<>>)
    /\ CBBefore(<<>>)
    /\ PFBefore(<<>>)

NextRecovery ==
    \/ \E password \in PasswordTexts, security_questions \in QuestionLists, salt \in Salts :
          Register(Amy, password, security_questions, salt)
    \/ \E password \in PasswordTexts : Login(Amy, password, TRUE)
    \/ \E username \in UsernameTexts, answers \in AnswerLists :
          VerifySecurityAnswers(username, answers)
    \/ \E username \in UsernameTexts, password \in PasswordTexts,
          answers \in AnswerLists, salt \in Salts :
          ResetPassword(username, password, answers, salt)

SpecRecovery == InitRecovery /\ [][NextRecovery]_vars

\* The 'response' texts of the streamed objects.
ChunkTexts == {<<>>, <<"a">>, <<"b">>, <<SP>>}
StreamLines ==
    {StreamLine("empty", <<>>, FALSE), StreamLine("malformed", <<>>, FALSE),
     StreamLine("value", <<>>, FALSE)}
    \cup {StreamLine("object", c, d) : c \in ChunkTexts, d \in BOOLEAN}
Streams == UNION {[1..n -> StreamLines] : n \in 0..MaxStreamLen}

\* One call of OllamaService.generate on every stream of up to MaxStreamLen
\* lines.
InitStream ==
    /\ ExportIdle
    /\ NoJobs
    /\ GWIdle
    /\ ChatIdle
    /\ AuthIdle
    /\ OllamaIdle
    /\ PSBefore(<<>>)
    /\ CBBefore(<<>>)
    /\ PFBefore(<<>>)

NextStream ==
    \/ \E status \in {200, 500}, lines \in Streams : OllamaGenerate(status, lines)
    \/ OllamaSkippedLine
    \/ OllamaObjectLine
    \/ OllamaValueLine
    \/ OllamaReturn

SpecStream == InitStream /\ [][NextStream]_vars

(***************************************************************************)
(* Properties of parse_sections.                                           *)
(***************************************************************************)
PSStarted == ps_pc \in {"loop", "done"}
PSDone == ps_pc = "done"

\* b is s with its leading and trailing whitespace removed, said without
\* computing it: s is whitespace, b, whitespace, and b has no whitespace at
\* either end.
IsTrimOf(b, s) ==
    \E i, j \in 0..Len(s) :
        /\ i + j <= Len(s)
        /\ AllSpaces(s, 1, i)
        /\ AllSpaces(s, Len(s) - j + 1, Len(s))
        /\ b = Slice(s, i + 1, Len(s) - j)
        /\ b # <<>> => (~IsSpace(b[1]) /\ ~IsSpace(b[Len(b)]))

NoHeadingLine == \A k \in 1..Len(Lines) : ~IsHeadingLine(Lines[k])

\* C1: parse_sections returns a non-empty list of (title, body) sections for
\* every content string, and for the empty string exactly [("Content", "")].
C1_NonEmptyResult ==
    PSDone =>
        /\ Len(ps_result) >= 1
        /\ \A k \in 1..Len(ps_result) : Len(ps_result[k]) = 2
        /\ content = <<>> => ps_result = << <<ContentTitle, <<>> >> >>

C1_Witness ==
    PSDone /\ content = <<>> /\ ps_result = << <<ContentTitle, <<>> >> >>

\* C2 as stated: when no line of the content is a heading, the result is the
\* single section ("Content", content), the body being the full input text.
C2_BodyIsFullText ==
    (PSDone /\ NoHeadingLine) => ps_result = << <<ContentTitle, content>> >>

\* C2 as amended: when no line of the content is a heading, the result is
\* the single section whose title is "Content" and whose body is the input
\* text with its leading and trailing whitespace removed.
C2_BodyIsTrimmedText ==
    (PSDone /\ NoHeadingLine) =>
        /\ Len(ps_result) = 1
        /\ ps_result[1][1] = ContentTitle
        /\ IsTrimOf(ps_result[1][2], content)

C2_Witness ==
    /\ PSDone
    /\ NoHeadingLine
    /\ ps_result[1][2] # <<>>
    /\ ps_result[1][2] # content
    /\ IsSpace(content[1])
    /\ IsSpace(content[Len(content)])

\* What C3 calls a heading, on a line already stripped: one to three '#'
\* followed by title text, or '**', text, '**' and nothing else.
ClaimedHeading(s) ==
    \/ \E h \in 1..3 : Len(s) > h /\ AllHashes(s, 1, h)
    \/ /\ Len(s) >= 5
       /\ AllStars(s, 1, 2)
       /\ AllStars(s, Len(s) - 1, Len(s))

PSAtLine == ps_pc = "loop" /\ ps_i < Len(Lines)

\* C3: the loop treats a line as a heading if and only if the line, after
\* removing its leading and trailing whitespace, is one to three '#' followed
\* by title text or is entirely wrapped in '**...**'; so a '#' heading with
\* leading whitespace is a heading like the same line without it.
C3_HeadingDecidedOnStrippedLine ==
    PSAtLine =>
        LET line == Lines[ps_i + 1]
        IN  /\ IsHeadingLine(line) <=> ClaimedHeading(Strip(line))
            /\ IsHeadingLine(LStrip(line)) => IsHeadingLine(line)

\* t neither begins nor ends with '*' or whitespace.
EdgeClean(t) ==
    t # <<>> => /\ ~IsStar(t[1]) /\ ~IsSpace(t[1])
                /\ ~IsStar(t[Len(t)]) /\ ~IsSpace(t[Len(t)])

\* C4: every section title taken from a heading line has leading/trailing
\* '*' and whitespace stripped: it never begins or ends with '*' or with
\* whitespace (the default title "Content" is the only other title).
C4_TitleEdgesStripped ==
    PSDone =>
        \A k \in 1..Len(ps_result) :
            ps_result[k][1] # ContentTitle => EdgeClean(ps_result[k][1])

\* The blocks of consecutive non-heading lines: where each starts and ends.
HeadingLines == {j \in 1..Len(Lines) : IsHeadingLine(Lines[j])}

BlockStarts ==
    {j \in 1..Len(Lines) : j \notin HeadingLines /\ (j = 1 \/ (j - 1) \in HeadingLines)}

BlockEnd(j) ==
    Max({e \in j..Len(Lines) : \A k \in j..e : k \notin HeadingLines})

\* The blocks whose section has been emitted: all of them at the end, and
\* during the loop those already followed by a consumed heading line.
EmittedBlocks ==
    IF PSDone THEN BlockStarts ELSE {j \in BlockStarts : BlockEnd(j) < ps_i}

NthBlock(k) ==
    CHOOSE j \in EmittedBlocks : Cardinality({x \in EmittedBlocks : x <= j}) = k

\* C5: sections are emitted in input order, one per block of non-heading
\* lines (none for a heading that follows another heading directly), titled
\* by the heading just before the block ("Content" before the first
\* heading), its body the block's lines verbatim, joined by newlines and
\* trimmed at the ends only; the list returned is the list emitted.
C5_SectionsAreBlocks ==
    PSStarted =>
        /\ Len(sections) = Cardinality(EmittedBlocks)
        /\ \A k \in 1..Len(sections) :
              LET j == NthBlock(k)
              IN  /\ sections[k][1] =
                        (IF j = 1 THEN ContentTitle ELSE HeadingTitle(Lines[j - 1]))
                  /\ IsTrimOf(sections[k][2],
                              JoinLines(SubSeq(Lines, j, BlockEnd(j))))
        /\ (PSDone /\ sections # <<>>) => ps_result = sections

C5_Witness ==
    /\ PSDone
    /\ Len(ps_result) = 2
    /\ ps_result[1][1] = ContentTitle
    /\ ps_result[1][2] # <<>>
    /\ IsHeadingLine(Lines[2])
    /\ ps_result[2][1] = HeadingTitle(Lines[2])

\* The heading lines with no other line behind them: the next line is a
\* heading too, or there is no next line.
BareHeadings ==
    {j \in HeadingLines : j = Len(Lines) \/ (j + 1) \in HeadingLines}

\* The lines that give a section its title: the heading lines that are not
\* bare, and line 0 for the title "Content" when line 1 is not a heading.
TitleSources == (HeadingLines \ BareHeadings) \cup (IF 1 \in HeadingLines THEN {} ELSE {0})

NthTitleSource(k) ==
    CHOOSE j \in TitleSources : Cardinality({x \in TitleSources : x <= j}) = k

\* C29: a heading line with no non-heading line, not even a blank one,
\* between it and the next heading or the end of the input gives no
\* section, and its title appears nowhere: the sections returned are those
\* of the other headings, in order (after the "Content" section of the lines
\* before the first heading).  When every line is a heading, the result is
\* the single section ("Content", content) with the raw input as its body.
C29_BareHeadingGivesNoSection ==
    PSDone =>
        IF HeadingLines = 1..Len(Lines)
        THEN ps_result = << <<ContentTitle, content>> >>
        ELSE /\ Len(ps_result) = Cardinality(TitleSources)
             /\ \A k \in 1..Len(ps_result) :
                    ps_result[k][1] =
                        (IF NthTitleSource(k) = 0 THEN ContentTitle
                         ELSE HeadingTitle(Lines[NthTitleSource(k)]))

\* Two headings in a row before a line of text: one section, titled by the
\* second heading.
C29_Witness ==
    /\ PSDone
    /\ Len(Lines) = 3
    /\ BareHeadings = {1}
    /\ HeadingLines = {1, 2}
    /\ HeadingTitle(Lines[1]) # HeadingTitle(Lines[2])
    /\ ps_result = << <<HeadingTitle(Lines[2]), Lines[3]>> >>
    /\ Lines[3] = <<"d">>

(***************************************************************************)
(* Properties of convert_checkboxes.                                       *)
(***************************************************************************)
CheckedTokens == {<<"[", "x", "]">>, <<"[", "X", "]">>}
UncheckedTokens == {<<"[", "]">>, <<"[", SP, "]">>}

TokenAt(s, k, tokens) == {n \in 2..3 : k + n - 1 <= Len(s) /\ Slice(s, k, k + n - 1) \in tokens}

\* The substitution as C6 words it: the four tokens become their glyph,
\* every other character stays where it is.
RECURSIVE ClaimedConvertFrom(_, _)
ClaimedConvertFrom(s, k) ==
    IF k > Len(s) THEN <<>>
    ELSE IF TokenAt(s, k, CheckedTokens) # {}
         THEN <<CHECKBOX_CHECKED>> \o ClaimedConvertFrom(s, k + 3)
    ELSE IF TokenAt(s, k, UncheckedTokens) # {}
         THEN <<CHECKBOX_UNCHECKED>>
              \o ClaimedConvertFrom(s, k + Max(TokenAt(s, k, UncheckedTokens)))
    ELSE <<s[k]>> \o ClaimedConvertFrom(s, k + 1)

\* C6: convert_checkboxes replaces exactly '[x]' and '[X]' by the checked
\* glyph and '[]' and '[ ]' by the unchecked glyph, and leaves all other
\* text unchanged and in order; a bracket pair around anything other than
\* nothing, one space, 'x' or 'X' is not substituted.
C6_ExactlyTheFourTokens ==
    cb_pc = "done" => cb_out = ClaimedConvertFrom(cb_text, 1)

(***************************************************************************)
(* Properties of parse_formatted_text.                                     *)
(***************************************************************************)
PFScanning == pf_pc = "scan"
PFDone == pf_pc = "done"

RECURSIVE ConcatTexts(_)
ConcatTexts(segs) ==
    IF segs = <<>> THEN <<>> ELSE segs[1][1] \o ConcatTexts(Tail(segs))

\* The indices of the characters that are delimiters of a yielded match.
DelimiterIdx ==
    UNION {((matches[k].start + 1)..(matches[k].start + matches[k].delim))
           \cup ((matches[k].end - matches[k].delim + 1)..(matches[k].end)) :
           k \in 1..Len(matches)}

\* s[from..upto] without the characters at the indices in D, in order.
RECURSIVE Without(_, _, _, _)
Without(s, D, from, upto) ==
    IF from > upto THEN <<>>
    ELSE (IF from \in D THEN <<>> ELSE <<s[from]>>) \o Without(s, D, from + 1, upto)

\* C7: the texts of the segments, concatenated in order, are the line after
\* checkbox substitution with the delimiters of the matched spans removed:
\* every other character appears exactly once, in its original order (after
\* each loop iteration for the part of the line consumed so far).
C7_ConcatenationReconstructsLine ==
    /\ \A k \in DelimiterIdx : pf_conv[k] = STAR
    /\ PFScanning => ConcatTexts(segments) = Without(pf_conv, DelimiterIdx, 1, last_end)
    /\ PFDone => /\ pf_conv = convert_checkboxes(pf_text)
                 /\ ConcatTexts(pf_result) = Without(pf_conv, DelimiterIdx, 1, Len(pf_conv))

C7_Witness ==
    /\ PFDone
    /\ pf_conv # pf_text
    /\ Len(matches) >= 1
    /\ Len(pf_result) = 3
    /\ matches[1].start > 0
    /\ matches[1].end < Len(pf_conv)

HasStar(s) == \E k \in 1..Len(s) : s[k] = STAR

HasCheckboxToken(s) ==
    \E k \in 1..Len(s) : TokenAt(s, k, CheckedTokens \cup UncheckedTokens) # {}

\* C8: for a string with no emphasis markers and no checkbox tokens (the
\* empty string included) the result is the one segment (s, False, False);
\* and the result is never the empty list.
C8_PlainLineIsOneSegment ==
    PFDone =>
        /\ pf_result # <<>>
        /\ (~HasStar(pf_text) /\ ~HasCheckboxToken(pf_text))
              => pf_result = <<PlainSegment(pf_text)>>

\* A well-formed bold span of t: at offset p two stars, n >= 1 characters
\* none of which is a star, two stars; no further star touches it.
WellFormedBold(t, p, n) ==
    /\ n >= 1
    /\ p + n + 4 <= Len(t)
    /\ AllStars(t, p + 1, p + 2)
    /\ \A k \in (p + 3)..(p + 2 + n) : t[k] # STAR /\ IsDot(t[k])
    /\ AllStars(t, p + n + 3, p + n + 4)
    /\ p > 0 => t[p] # STAR
    /\ p + n + 4 < Len(t) => t[p + n + 5] # STAR

\* C9: for every well-formed '**X**' span in the line there is a segment
\* with bold = True, italic = False and text X.
C9_BoldSpanIsBoldSegment ==
    PFDone =>
        \A p \in 0..Len(pf_conv), n \in 1..Len(pf_conv) :
            WellFormedBold(pf_conv, p, n) =>
                \E k \in 1..Len(pf_result) :
                    pf_result[k] = <<Slice(pf_conv, p + 3, p + 2 + n), TRUE, FALSE>>

\* Alternative d (d stars on each side) fits at offset p of t with a group
\* of n characters.
SpanAt(t, p, d, n) ==
    /\ n >= 1
    /\ p + 2 * d + n <= Len(t)
    /\ AllStars(t, p + 1, p + d)
    /\ AllDots(t, p + d + 1, p + d + n)
    /\ AllStars(t, p + d + n + 1, p + 2 * d + n)

SomeSpanAt(t, p) == \E d \in 1..3, n \in 1..Len(t) : SpanAt(t, p, d, n)

\* x contains d stars in a row.
ContainsStars(x, d) == \E k \in 1..(Len(x) - d + 1) : AllStars(x, k, k + d - 1)

EmphasisSegments == SelectSeq(segments, LAMBDA s : s[2] \/ s[3])

\* The scan of C10 without its last clause: the spans go left to right and
\* do not overlap; no alternative fits at an offset the scan passed over; at
\* the offset of a span no alternative with more stars fits; its group is
\* the shortest non-empty run that the closing delimiter follows; each span
\* gives the segment of its alternative; at the end no span is left.
ScanIsLeftmostLongestDelimiterLazy ==
    /\ \A k \in 1..Len(matches) :
          LET m == matches[k]
              prev == IF k = 1 THEN 0 ELSE matches[k - 1].end
              n == m.end - m.start - 2 * m.delim
          IN  /\ prev <= m.start /\ m.start < m.end /\ m.end <= Len(pf_conv)
              /\ \A q \in prev..(m.start - 1) : ~SomeSpanAt(pf_conv, q)
              /\ SpanAt(pf_conv, m.start, m.delim, n)
              /\ \A d \in (m.delim + 1)..3 :
                    ~\E n2 \in 1..Len(pf_conv) : SpanAt(pf_conv, m.start, d, n2)
              /\ \A n2 \in 1..(n - 1) : ~SpanAt(pf_conv, m.start, m.delim, n2)
    /\ last_end = (IF matches = <<>> THEN 0 ELSE matches[Len(matches)].end)
    /\ Len(EmphasisSegments) = Len(matches)
    /\ \A k \in 1..Len(matches) :
          EmphasisSegments[k] = <<MatchGroup(pf_conv, matches[k]),
                                  matches[k].delim >= 2, matches[k].delim # 2>>
    /\ PFDone => \A q \in last_end..Len(pf_conv) : ~SomeSpanAt(pf_conv, q)

\* C10 as stated: the scan above, and the group X of every span does not
\* contain the delimiter sequence that closes it.
C10_GroupNeverContainsDelimiter ==
    /\ ScanIsLeftmostLongestDelimiterLazy
    /\ \A k \in 1..Len(matches) :
          ~ContainsStars(MatchGroup(pf_conv, matches[k]), matches[k].delim)

\* C10 as amended: one left-to-right scan with non-overlapping spans, '***'
\* tried before '**' before '*' at each offset, X the shortest non-empty run
\* that the closing delimiter directly follows; X may begin with stars, and
\* only after its first character is it free of the closing delimiter.
C10_ScanOrderAndLazyGroup ==
    /\ ScanIsLeftmostLongestDelimiterLazy
    /\ \A k \in 1..Len(matches) :
          ~ContainsStars(Tail(MatchGroup(pf_conv, matches[k])), matches[k].delim)

C10_Witness ==
    /\ PFDone
    /\ Len(matches) = 1
    /\ matches[1].delim = 2
    /\ ContainsStars(MatchGroup(pf_conv, matches[1]), 2)

(***************************************************************************)
(* Where each returned segment came from in the converted line: a plain    *)
(* segment is its text, an emphasised one its text between as many stars   *)
(* on each side as its flags say.                                          *)
(***************************************************************************)
SegDelim(seg) ==
    IF seg[2] /\ seg[3] THEN 3 ELSE IF seg[2] THEN 2 ELSE IF seg[3] THEN 1 ELSE 0

\* The offset of the line at which the span of segment j starts.
RECURSIVE SegStart(_, _)
SegStart(segs, j) ==
    IF j = 1 THEN 0
    ELSE SegStart(segs, j - 1) + Len(segs[j - 1][1]) + 2 * SegDelim(segs[j - 1])

\* The indices of the line that hold the text of segment j, and the ones
\* that hold its closing delimiter.
SegTextIdx(segs, j) ==
    (SegStart(segs, j) + SegDelim(segs[j]) + 1)
        ..(SegStart(segs, j) + SegDelim(segs[j]) + Len(segs[j][1]))

SegCloseIdx(segs, j) ==
    (SegStart(segs, j) + SegDelim(segs[j]) + Len(segs[j][1]) + 1)
        ..(SegStart(segs, j) + 2 * SegDelim(segs[j]) + Len(segs[j][1]))

\* The spans of the segments cover the line from its first character to its
\* last, and every segment's text is the text of the line at its place.
SegmentsTileLine ==
    /\ SegStart(pf_result, Len(pf_result) + 1) = Len(pf_conv)
    /\ \A j \in 1..Len(pf_result) :
          /\ SegTextIdx(pf_result, j) \subseteq 1..Len(pf_conv)
          /\ \A k \in SegTextIdx(pf_result, j) :
                pf_conv[k] = pf_result[j][1][k - SegStart(pf_result, j) - SegDelim(pf_result[j])]

\* The '*' at index k has no closing delimiter: no '*' follows it after at
\* least one character of text.
NoClosingDelimiter(t, k) ==
    /\ t[k] = STAR
    /\ \A j \in (k + 2)..Len(t) : t[j] # STAR

\* The character at index k closes the span of a segment.
IsClosingDelimiter(segs, k) == \E j \in 1..Len(segs) : k \in SegCloseIdx(segs, j)

UnclosedStars ==
    {k \in 1..Len(pf_conv) :
        NoClosingDelimiter(pf_conv, k) /\ ~IsClosingDelimiter(pf_result, k)}

\* The call never stops short of its return (while it scans, either no span
\* is left and it returns, or the next span lies ahead, inside the line, so
\* that the loop advances), and it drops no text.
PFTotalAndLossless ==
    /\ PFScanning =>
          LET m == SearchFrom(pf_conv, last_end)
          IN  m # NoMatch => (last_end <= m.start /\ m.start < m.end /\ m.end <= Len(pf_conv))
    /\ PFDone => SegmentsTileLine

\* C11 as stated: malformed emphasis markup never makes parse_formatted_text
\* fail or drop text, and a '*' that has no closing delimiter (and closes no
\* span itself) is kept as a literal character inside a plain segment.
C11_UnclosedStarInPlainSegment ==
    /\ PFTotalAndLossless
    /\ PFDone =>
          \A k \in UnclosedStars :
              \E j \in 1..Len(pf_result) :
                  /\ k \in SegTextIdx(pf_result, j)
                  /\ ~pf_result[j][2] /\ ~pf_result[j][3]

\* C11 as amended: malformed emphasis markup never makes the call fail or
\* drop text; a '*' that has no closing delimiter is never consumed as a
\* delimiter but kept as a literal character of a segment's text, and that
\* segment is plain unless the '*' directly follows a '*' that a later '*'
\* closes: then it is the whole text of an italic segment ('***' is the
\* italic segment '*').
C11_UnclosedStarIsLiteral ==
    /\ PFTotalAndLossless
    /\ PFDone =>
          \A k \in UnclosedStars :
              \E j \in 1..Len(pf_result) :
                  /\ k \in SegTextIdx(pf_result, j)
                  /\ \/ ~pf_result[j][2] /\ ~pf_result[j][3]
                     \/ /\ pf_result[j] = <<<<STAR>>, FALSE, TRUE>>
                        /\ k >= 2 /\ k < Len(pf_conv)
                        /\ pf_conv[k - 1] = STAR /\ pf_conv[k + 1] = STAR

\* A line with an italic span and, after it, a '*' that nothing closes: the
\* star is the text of the plain segment that ends the result.
C11_Witness ==
    /\ PFDone
    /\ Len(pf_result) = 2
    /\ pf_result[1][3]
    /\ pf_result[2] = PlainSegment(<<STAR>>)
    /\ Len(pf_conv) \in UnclosedStars

(***************************************************************************)
(* Properties of the exporters' line loops.                                *)
(***************************************************************************)
ExLooping == ex_pc = "loop" /\ ex_s >= 1
ExDone == ex_pc = "done"

IsBlank(line) == \A k \in 1..Len(line) : IsSpace(line[k])

\* The lines of the current section that the line loop has consumed and
\* that are not blank, in order.
RECURSIVE NonBlankLines(_, _)
NonBlankLines(lines, upto) ==
    IF upto = 0 THEN <<>>
    ELSE NonBlankLines(lines, upto - 1)
         \o (IF IsBlank(lines[upto]) THEN <<>> ELSE <<lines[upto]>>)

ConsumedLines == NonBlankLines(ex_lines, ex_l)

\* The Line Classifier as C12 words it, on a trimmed non-empty line t.
HasMarker(t) == Len(t) >= 2 /\ t[1] \in {"-", "*"} /\ t[2] = " "

HasNumber(t) ==
    \E n \in 1..(Len(t) - 1) : (\A k \in 1..n : IsDigit(t[k])) /\ t[n + 1] = "."

IsClassifiedAs(t, kind, c) ==
    \/ /\ kind = "Bullet"
       /\ HasMarker(t)
       /\ c = Slice(t, 3, Len(t))
    \/ /\ kind = "Numbered"
       /\ ~HasMarker(t)
       /\ \E n \in 1..(Len(t) - 1), w \in 0..Len(t) :
             /\ \A k \in 1..n : IsDigit(t[k])
             /\ t[n + 1] = "."
             /\ n + 1 + w <= Len(t)
             /\ AllSpaces(t, n + 2, n + 1 + w)
             /\ c = Slice(t, n + 2 + w, Len(t))
             /\ c # <<>> => ~IsSpace(c[1])
    \/ /\ kind = "Plain"
       /\ ~HasMarker(t)
       /\ ~HasNumber(t)
       /\ c = t

Suffixes(t) == {Slice(t, k, Len(t)) : k \in 1..(Len(t) + 1)}

KindOfStyle(style) ==
    IF style = "List Bullet" THEN "Bullet"
    ELSE IF style = "List Number" THEN "Numbered"
    ELSE IF style = "Normal" THEN "Plain"
    ELSE "none"

KindOfBranch(branch) ==
    IF branch = "bullet" THEN "Bullet"
    ELSE IF branch = "number" THEN "Numbered"
    ELSE IF branch = "plain" THEN "Plain"
    ELSE "none"

\* The paragraphs the document holds for the current section: the blocks
\* after its heading.
DocxSectionParagraphs ==
    SubSeq(doc, Len(doc) - Len(ConsumedLines) + 1, Len(doc))

\* The paragraphs of the current slide that a line has filled.
PptxSectionParagraphs ==
    IF first_line THEN <<>> ELSE slides[Len(slides)].paragraphs

\* C12: in the document and the slide-deck renderers a line whose trimmed
\* form is empty is skipped, and every other line gives one paragraph, in
\* order, whose kind and content are the classification of the trimmed
\* line: Bullet after '- ' or '* ' (content the rest after 2 characters),
\* else Numbered after digits and a period (content the rest after the
\* digits, the period and the whitespace that follows), else Plain (content
\* the trimmed line).  The slide renderer's content is that content with
\* the checkboxes substituted, the substitution being made before.
C12_LineClassification ==
    /\ (ex_fmt = "docx" /\ ExLooping) =>
          /\ Len(doc) > Len(ConsumedLines)
          /\ doc[Len(doc) - Len(ConsumedLines)].style = "Heading 1"
          /\ \A j \in 1..Len(ConsumedLines) :
                IsClassifiedAs(Strip(ConsumedLines[j]),
                               KindOfStyle(DocxSectionParagraphs[j].style),
                               DocxSectionParagraphs[j].line_content)
    /\ (ex_fmt = "pptx" /\ ExLooping) =>
          /\ Len(PptxSectionParagraphs) = Len(ConsumedLines)
          /\ \A j \in 1..Len(ConsumedLines) :
                \E c \in Suffixes(Strip(ConsumedLines[j])) :
                    /\ IsClassifiedAs(Strip(ConsumedLines[j]),
                                      KindOfBranch(PptxSectionParagraphs[j].branch), c)
                    /\ PptxSectionParagraphs[j].line = convert_checkboxes(c)

\* A numbered line with whitespace around it and after its period: the
\* paragraph's content is what follows that whitespace.
C12_Witness ==
    /\ ex_fmt = "docx"
    /\ ExDone
    /\ VersionContent(materials, version_key) = <<"1", DOT, SP, "1">>
    /\ \E j \in 1..Len(doc) :
          doc[j].style = "List Number" /\ doc[j].line_content = <<"1">>

\* The flowables the story holds for the current section: the blocks after
\* its header.
PdfSectionParagraphs ==
    SubSeq(story, Len(story) - Len(ConsumedLines) + 1, Len(story))

\* C13: in export_to_pdf every non-blank body line whose trimmed form starts
\* with '- ' or '* ' is emitted as a text block that carries the bullet
\* character in place of its 2-character marker, whatever emphasis markup
\* the rest of the line contains.
C13_BulletLinesGetBulletPrefix ==
    (ex_fmt = "pdf" /\ ExLooping) =>
        /\ Len(story) > Len(ConsumedLines)
        /\ story[Len(story) - Len(ConsumedLines)].branch = "header"
        /\ \A j \in 1..Len(ConsumedLines) :
              HasMarker(Strip(ConsumedLines[j])) =>
                  /\ PdfSectionParagraphs[j].branch = "bullet"
                  /\ Take(PdfSectionParagraphs[j].text, 2) = <<BULLET, SP>>
                  /\ Len(PdfSectionParagraphs[j].text) >= Len(Strip(ConsumedLines[j]))

\* The serialization of segments as inline tags, as C14 words it.
RECURSIVE Serialized(_)
Serialized(segs) ==
    IF segs = <<>> THEN <<>>
    ELSE (IF segs[1][2] /\ segs[1][3]
          THEN <<"<", "b", ">", "<", "i", ">">> \o segs[1][1] \o <<"<", "/", "i", ">", "<", "/", "b", ">">>
          ELSE IF segs[1][2]
          THEN <<"<", "b", ">">> \o segs[1][1] \o <<"<", "/", "b", ">">>
          ELSE IF segs[1][3]
          THEN <<"<", "i", ">">> \o segs[1][1] \o <<"<", "/", "i", ">">>
          ELSE segs[1][1])
         \o Serialized(Tail(segs))

\* The inline-tag text of a block of the story: its text, with the marker
\* of the line back in place of the bullet prefix for a bullet block.
TagText(block, stripped) ==
    IF block.branch = "bullet"
    THEN Slice(stripped, 1, 2) \o Slice(block.text, 3, Len(block.text))
    ELSE block.text

\* C14: for every body line, the inline-tag text export_to_pdf produces is
\* the serialization of the segments parse_formatted_text returns for that
\* line (plain as its text, bold in <b>, italic in <i>, both in <b><i>).
C14_TagsAreSerializedSegments ==
    (ex_fmt = "pdf" /\ ExLooping) =>
        \A j \in 1..Len(ConsumedLines) :
            TagText(PdfSectionParagraphs[j], Strip(ConsumedLines[j]))
                = Serialized(parse_formatted_text(Strip(ConsumedLines[j])))

\* C15: for every section body export_to_pptx derives the paragraphs that
\* export_to_docx derives: one per non-blank line, in order, of the same
\* kind, with the same content once the checkboxes are substituted, and with
\* the same (text, bold, italic) runs, although the slide renderer
\* substitutes the checkboxes before it classifies the line and the
\* document renderer after.
C15_SlideParagraphsAreDocumentParagraphs ==
    (ex_fmt = "pptx" /\ ExLooping) =>
        /\ Len(PptxSectionParagraphs) = Len(ConsumedLines)
        /\ \A j \in 1..Len(ConsumedLines) :
              LET p == PptxSectionParagraphs[j]
                  d == DocxParagraph(Strip(ConsumedLines[j]))
              IN  /\ KindOfBranch(p.branch) = KindOfStyle(d.style)
                  /\ p.line = convert_checkboxes(d.line_content)
                  /\ p.runs = d.runs

\* A bullet line that holds a checkbox: the slide paragraph has lost the
\* marker and shows the glyph.
C15_Witness ==
    /\ ex_fmt = "pptx"
    /\ ExDone
    /\ VersionContent(materials, version_key) = <<DASH, SP, "[", "]">>
    /\ Len(slides) = 3
    /\ slides[2].paragraphs =
          << [branch |-> "bullet", level |-> 1, line |-> <<CHECKBOX_UNCHECKED>>,
              runs |-> <<PlainSegment(<<CHECKBOX_UNCHECKED>>)>>] >>

(***************************************************************************)
(* Properties of export_to_pptx as a whole.                                *)
(***************************************************************************)
\* The non-blank lines of a section body, in order.
BodyLines(section_body) ==
    NonBlankLines(SplitLines(section_body), Len(SplitLines(section_body)))

\* Paragraph p is the one of the trimmed line t: its content is the
\* classified content and its level is 1 for Bullet and Numbered, else 0.
IsParagraphOf(p, t) ==
    \E kind \in {"Bullet", "Numbered", "Plain"}, c \in Suffixes(t) :
        /\ IsClassifiedAs(t, kind, c)
        /\ p.line = convert_checkboxes(c)
        /\ p.level = (IF kind = "Plain" THEN 0 ELSE 1)
        /\ p.runs # <<>>

\* Slide k + 1 is the finished content slide of section k.
IsContentSlideOf(slide, section) ==
    /\ slide.layout = 1
    /\ slide.title = section[1]
    /\ IF BodyLines(section[2]) = <<>>
       THEN slide.paragraphs = <<EmptyParagraph>>
       ELSE /\ Len(slide.paragraphs) = Len(BodyLines(section[2]))
            /\ \A j \in 1..Len(slide.paragraphs) :
                  IsParagraphOf(slide.paragraphs[j], Strip(BodyLines(section[2])[j]))

\* The sections whose slide is finished.
FinishedSections ==
    IF ex_pc = "idle" THEN 0
    ELSE IF ex_pc = "loop" /\ ex_l < Len(ex_lines) THEN ex_s - 1
    ELSE ex_s

\* C16: for a content with n sections export_to_pptx builds exactly n + 2
\* slides: the title slide, one content slide per section in section order
\* with the section's title, the final credit slide; on a content slide
\* every non-blank body line yields exactly one paragraph, in line order,
\* of level 1 if the line is Bullet or Numbered and of level 0 otherwise.
C16_SlidesPerSection ==
    (ex_fmt = "pptx" /\ ex_pc # "idle") =>
        /\ ex_sections = parse_sections(VersionContent(materials, version_key))
        /\ slides[1].layout = 0
        /\ Len(slides) = 1 + ex_s + (IF ExDone THEN 1 ELSE 0)
        /\ \A k \in 1..FinishedSections : IsContentSlideOf(slides[k + 1], ex_sections[k])
        /\ ExDone =>
              /\ ex_s = Len(ex_sections)
              /\ Len(slides) = Len(ex_sections) + 2
              /\ slides[Len(slides)].layout = 6

\* Two sections, four slides: the first section has one numbered line (one
\* paragraph of level 1), the second, under the heading '##', no line.
C16_Witness ==
    /\ ex_fmt = "pptx"
    /\ ExDone
    /\ VersionContent(materials, version_key) = <<"1", DOT, NL, HASH, HASH, NL>>
    /\ Len(slides) = 4
    /\ slides[2].title = ContentTitle
    /\ Len(slides[2].paragraphs) = 1
    /\ slides[2].paragraphs[1].level = 1
    /\ slides[3].title = <<HASH>>
    /\ slides[3].paragraphs = <<EmptyParagraph>>

(***************************************************************************)
(* Properties of export_all_to_xlsx.                                       *)
(***************************************************************************)
HasEmphasisSpan(t) ==
    \E p \in 0..Len(t), d \in 1..3, n \in 1..Len(t) : SpanAt(t, p, d, n)

\* C17: the text written to every Content cell has its emphasis markers
\* stripped entirely: it contains no emphasis span of three, two or one
\* star, so cleaning it a second time would not change it.
C17_CleaningLeavesNoSpan ==
    ex_fmt = "xlsx" =>
        \A k \in 1..Len(wb) : \A r \in 1..Len(wb[k].rows) :
            k >= 2 =>
                /\ ~HasEmphasisSpan(wb[k].rows[r][2])
                /\ CleanedContent(wb[k].rows[r][2]) = wb[k].rows[r][2]

SheetTitles == [k \in 1..Len(wb) |-> wb[k].title]

\* The sheet titles of a finished workbook: Overview, then one per known
\* version key in the order of VERSION_NAMES, each cut to 31 characters.
ExpectedTitles ==
    <<<<"Overview">>>> \o [k \in 1..Len(VersionKeys) |-> Take(VersionKeys[k], 31)]

\* C18: whatever keys the materials hold or lack, the workbook has the sheet
\* Overview first and then exactly one sheet per known version key, in the
\* order simplified, on_level, enriched, visual_heavy, scaffolded; every
\* sheet name is the key cut to its first 31 characters and is never longer
\* than 31 characters.  During the call the sheets made so far are a prefix
\* of that list.
C18_SheetPerKnownVersion ==
    /\ (ex_fmt = "xlsx" /\ ex_pc = "loop") =>
           /\ Len(wb) = 1 + ex_v
           /\ SheetTitles = SubSeq(ExpectedTitles, 1, Len(wb))
    /\ (ex_fmt = "xlsx" /\ ex_pc = "done") =>
           /\ SheetTitles = ExpectedTitles
           /\ Len(wb) = 6
           /\ \A k \in 2..6 :
                 /\ wb[k].title = VersionKeys[k - 1]
                 /\ wb[k].a1 = VERSION_NAMES[VersionKeys[k - 1]]
           /\ \A k \in 1..6 : Len(wb[k].title) <= 31

\* A finished workbook for materials that lack known keys and hold an
\* unknown one.
C18_Witness ==
    /\ ex_fmt = "xlsx"
    /\ ex_pc = "done"
    /\ DOMAIN materials = {VersionKeys[3], ExtraKey}
    /\ Len(wb) = 6
    /\ wb[4].title = VersionKeys[3]

(***************************************************************************)
(* Properties of the file names.                                           *)
(***************************************************************************)
Objective == DictGet(form_data, "learning_objective", DefaultObjective)

\* The first 30 characters of the learning objective.
ObjectiveHead == SubSeq(Objective, 1, IF Len(Objective) < 30 THEN Len(Objective) ELSE 30)

\* The positions of ObjectiveHead whose character may stay in a file name.
KeptPositions == {i \in 1..Len(ObjectiveHead) : ObjectiveHead[i] \notin ForbiddenChars}

\* s is ObjectiveHead without its forbidden characters, the others in their
\* original order, cut to 50 characters.
IsSanitizedObjective(s) ==
    /\ Len(s) = IF Cardinality(KeptPositions) < 50 THEN Cardinality(KeptPositions) ELSE 50
    /\ \A i \in KeptPositions :
          LET j == Cardinality({k \in KeptPositions : k <= i})
          IN  j <= 50 => s[j] = ObjectiveHead[i]

\* The text between the second underscore of the file name and the extension.
NamePrefix == <<"U", "D", "L", "_">>
KeySlot ==
    IF ex_fmt = "xlsx" THEN <<"A", "l", "l", "V", "e", "r", "s", "i", "o", "n", "s">>
    ELSE version_key
NameExtension ==
    CASE ex_fmt = "docx" -> <<".", "d", "o", "c", "x">>
      [] ex_fmt = "pdf"  -> <<".", "p", "d", "f">>
      [] ex_fmt = "pptx" -> <<".", "p", "p", "t", "x">>
      [] OTHER           -> <<".", "x", "l", "s", "x">>
PathHead == save_path \o <<"/">> \o NamePrefix \o KeySlot \o <<"_">>
NameS ==
    SubSeq(filepath, Len(PathHead) + 1, Len(filepath) - Len(NameExtension))

\* C19: every exporter names its file {prefix}_{versionKey}_{S}.{ext} in the
\* save directory, with the prefix UDL, the version key (AllVersions for the
\* workbook) and the format's extension; S is the learning objective cut to
\* its first 30 characters, without the characters <>:"/\|?*, cut to 50
\* characters: S has at most 30 characters, none of them forbidden, and
\* the characters it keeps are in their original order.
C19_FileNameConvention ==
    filepath # <<>> =>
        /\ Len(filepath) >= Len(PathHead) + Len(NameExtension)
        /\ SubSeq(filepath, 1, Len(PathHead)) = PathHead
        /\ SubSeq(filepath, Len(filepath) - Len(NameExtension) + 1, Len(filepath))
               = NameExtension
        /\ IsSanitizedObjective(NameS)
        /\ Len(NameS) <= 30
        /\ \A i \in 1..Len(NameS) : NameS[i] \notin ForbiddenChars

\* A saved file whose objective is longer than 30 characters, with a
\* forbidden character among the first 30 and another after them.
C19_Witness ==
    /\ ex_pc = "done"
    /\ ex_fmt = "docx"
    /\ Objective = Pad(29) \o <<"/", ":">>
    /\ NameS = Pad(29)

(***************************************************************************)
(* Properties of export calls running side by side.                        *)
(***************************************************************************)
DifferentCalls(i, j) == jobs[i].fmt # jobs[j].fmt \/ jobs[i].key # jobs[j].key

\* C20: for one form_data and one save directory, two export calls that
\* differ in version key or in format compute different file paths, and so
\* no file is saved by both of them.
C20_DistinctPaths ==
    \A i \in DOMAIN jobs, j \in DOMAIN jobs :
        (i # j /\ DifferentCalls(i, j)) =>
            /\ (jobs[i].pc # "called" /\ jobs[j].pc # "called")
                   => jobs[i].filepath # jobs[j].filepath
            /\ \A w1 \in written, w2 \in written :
                   (w1.by = i /\ w2.by = j) => w1.path # w2.path

\* Two calls of one exporter for two version keys have both saved.
C20_Witness ==
    /\ DOMAIN jobs = JobIds
    /\ jobs[1].fmt = "pdf" /\ jobs[2].fmt = "pdf"
    /\ jobs[1].key = VersionKeys[1] /\ jobs[2].key = VersionKeys[2]
    /\ jobs[1].pc = "saved" /\ jobs[2].pc = "saved"
    /\ Cardinality(written) = 2

(***************************************************************************)
(* Properties of the exporters on the records of a generation run.         *)
(***************************************************************************)
\* sub occurs in t.
Contains(t, sub) ==
    \E i \in 0..(Len(t) - Len(sub)) : SubSeq(t, i + 1, i + Len(sub)) = sub

RECURSIVE RunsText(_)
RunsText(runs) ==
    IF runs = <<>> THEN <<>> ELSE runs[1][1] \o RunsText(Tail(runs))

\* Every text the output of the running export call shows.
RenderedTexts ==
    {RunsText(doc[k].runs) : k \in 1..Len(doc)}
        \cup {story[k].text : k \in 1..Len(story)}
        \cup {slides[k].title : k \in 1..Len(slides)}
        \cup UNION {{slides[k].paragraphs[q].line : q \in 1..Len(slides[k].paragraphs)} :
                       k \in 1..Len(slides)}

Shows(t) == \E r \in RenderedTexts : Contains(r, t)

ExportedRecord == materials[version_key]

HasRecord == ex_fmt \in {"docx", "pdf", "pptx"} /\ version_key \in DOMAIN materials

\* C21: when the record of the exported version has no text and no error,
\* the finished document shows the placeholder No content generated.
C21_EmptyContentShowsPlaceholder ==
    (/\ HasRecord
     /\ ExDone
     /\ ExportedRecord.content = <<>>
     /\ ExportedRecord.error = <<>>)
        => Shows(NoContentGenerated)

\* C22: when the record of the version exported to docx or pdf carries an
\* error, the finished output shows the error string.
C22_ErrorIsRendered ==
    (/\ HasRecord
     /\ ex_fmt \in {"docx", "pdf"}
     /\ ExDone
     /\ ExportedRecord.error # <<>>)
        => Shows(ExportedRecord.error[1])

(***************************************************************************)
(* Properties of GenerationWorker and StepGenerate.                        *)
(***************************************************************************)
\* The position of a version in the versions list.
VersionIndex(version) == CHOOSE k \in 1..Len(versions) : versions[k] = version

\* rec is a well-formed record for the version: with an error it has no
\* content; without one its content is the text the generation returned.
IsWellFormedRecord(version, rec) ==
    LET reply == replies[VersionIndex(version)]
    IN  /\ rec.error # <<>> => (rec.content = <<>> /\ ~reply.ok)
        /\ rec.error = <<>> => (reply.ok /\ rec.content = reply.text)

VersionCompletes == SelectSeq(emitted, LAMBDA g : g.signal = "version_complete")
Finisheds == SelectSeq(emitted, LAMBDA g : g.signal = "finished")
Progress100s == SelectSeq(emitted, LAMBDA g : g.signal = "progress" /\ g.arg = 100)

\* C24: every record the worker stores in results or emits, with
\* version_complete or inside the mapping of finished, has an empty content
\* if its error is present, and carries the text the generation call
\* returned if its error is None.
C24_RecordsAreWellFormed ==
    /\ \A v \in DOMAIN results : IsWellFormedRecord(v, results[v])
    /\ \A k \in 1..Len(emitted) :
          /\ emitted[k].signal = "version_complete"
                 => IsWellFormedRecord(emitted[k].version, emitted[k].arg)
          /\ emitted[k].signal = "finished"
                 => \A v \in DOMAIN emitted[k].arg :
                        IsWellFormedRecord(v, emitted[k].arg[v])

\* A finished run that stored a failed record and a generated one.
C24_Witness ==
    /\ gw_pc = "done"
    /\ results[versions[2]].error # <<>>
    /\ results[versions[2]].content = <<>>
    /\ results[versions[3]].error = <<>>
    /\ results[versions[3]].content = GeneratedText

\* C27: one run takes the five versions in the order simplified, on_level,
\* enriched, visual_heavy, scaffolded and emits one version_complete per
\* version in that order, a failed version included; then it emits finished
\* once, last, with a mapping of all five keys, which becomes the materials
\* of StepGenerate; progress(version, 100) is emitted for the versions that
\* succeeded and for no other.
C27_OneCompletePerVersionThenFinished ==
    /\ Len(VersionCompletes) = gw_i
    /\ \A k \in 1..Len(VersionCompletes) :
          /\ VersionCompletes[k].version = versions[k]
          /\ VersionCompletes[k].arg = results[versions[k]]
    /\ [k \in 1..Len(Progress100s) |-> Progress100s[k].version]
           = SelectSeq(SubSeq(versions, 1, gw_i), LAMBDA v : results[v].error = <<>>)
    /\ Len(Finisheds) = IF gw_pc = "done" THEN 1 ELSE 0
    /\ gw_pc = "done" =>
          /\ gw_i = 5
          /\ versions = <<VersionKeys[1], VersionKeys[2], VersionKeys[3],
                          VersionKeys[4], VersionKeys[5]>>
          /\ emitted[Len(emitted)].signal = "finished"
          /\ DOMAIN emitted[Len(emitted)].arg = {versions[k] : k \in 1..5}
          /\ handled = Len(emitted) => materials = results

\* A finished run whose second version failed, all its signals handled.
C27_Witness ==
    /\ gw_pc = "done"
    /\ ~replies[2].ok
    /\ replies[3].ok
    /\ handled = Len(emitted)
    /\ Len(VersionCompletes) = 5
    /\ Len(Progress100s) = 4
    /\ DOMAIN materials = {versions[k] : k \in 1..5}

\* C28: every prompt of a run is built from the values the form had when
\* start_generation was called.
C28_PromptsUseFormAtStart ==
    \A k \in 1..Len(gw_prompts) :
        gw_prompts[k] = <<user_prompt(form_at_start, versions[k]),
                          build_system_prompt(form_at_start, versions[k])>>

(***************************************************************************)
(* Properties of the worker threads.                                       *)
(***************************************************************************)
RunningChatWorkers == {w \in DOMAIN chat_workers : chat_workers[w] = "running"}

\* C23: worker threads are fired one at a time: at no time are there two
\* ChatWorkers that have been started and have not yet emitted finished or
\* error, and generate_btn, the only way to start a GenerationWorker, is
\* disabled while a GenerationWorker runs.
C23_OneWorkerAtATime ==
    /\ Cardinality(RunningChatWorkers) <= 1
    /\ generate_btn = TRUE => gw_pc \in {"none", "done"}

ResetVerified(us, username, new_password, answers) ==
    /\ FindUser(us, username) # <<>>
    /\ LET stored == us[FindUser(us, username)[1]].security_questions
       IN  /\ Len(answers) = Len(stored)
           /\ \A i \in 1..Len(stored) :
                  Sha256(Lower(Strip(answers[i]))) = stored[i].answer_hash
    /\ Len(new_password) >= 6

\* The passwords login accepts for username.
AcceptedPasswords(us, username) ==
    {p \in PasswordTexts : LoginProblem(us, username, p) = <<>>}

\* A reset_password step: it succeeds only when everything is verified and
\* leaves the users store alone when it fails; after a success login
\* accepts the new password.
ResetStep ==
    LET call == auth_call'
    IN  call.op = "reset_password" =>
            /\ call.ok => ResetVerified(users, call.args[1], call.args[2], call.args[3])
            /\ ~call.ok => users' = users
            /\ call.ok => call.args[2] \in AcceptedPasswords(users', call.args[1])

CountedLines(lines) ==
    LET dones == {k \in 1..Len(lines) : lines[k].kind = "object" /\ lines[k].done}
    IN  IF dones = {} THEN lines
        ELSE SubSeq(lines, 1, CHOOSE k \in dones : \A j \in dones : k <= j)

IsObjectLine(line) == line.kind = "object"
IsNonEmptyText(t) == t # <<>>

\* The 'response' texts of the objects among the counted lines, in order.
CountedChunks(lines) ==
    LET objects == SelectSeq(CountedLines(lines), IsObjectLine)
    IN  [k \in 1..Len(objects) |-> objects[k].response]

RECURSIVE ConcatChunks(_)
ConcatChunks(chunks) ==
    IF chunks = <<>> THEN <<>> ELSE Head(chunks) \o ConcatChunks(Tail(chunks))

\* C30: on an HTTP 200 stream generate returns, stripped, the 'response'
\* texts of the JSON lines up to and including the first line whose 'done'
\* is true, concatenated in order; later lines, empty lines and lines that
\* are not JSON objects are passed over without an error; on_progress is
\* called once per non-empty chunk, in order; a stream that ends without a
\* 'done' line gives the text gathered so far.
C30_GenerateReturnsStreamedText ==
    (ol_status = 200 /\ ol_pc \in {"returned", "raised"}) =>
        /\ ol_pc = "returned"
        /\ ol_result = Strip(ConcatChunks(CountedChunks(ol_lines)))
        /\ progress_calls = SelectSeq(CountedChunks(ol_lines), IsNonEmptyText)

====
